---- MODULE Spec2Model ----
(***************************************************************************)
(* A model of the chunked remote-processing pipeline of ai_transcribe:     *)
(* the two-tier result cache (utils/cache.py), the retrying call executor  *)
(* (utils/api_utils.py), the two remote clients and their response         *)
(* extractors, the two mergers and the orchestrators that tie them         *)
(* together (transcribe/transcriber.py, ai_process/text_processor.py).     *)
(*                                                                         *)
(* Texts are sequences of one-character strings.  Time is counted in       *)
(* hours.  A Python dict is a function whose DOMAIN is its key set.        *)
(***************************************************************************)
EXTENDS Integers, Sequences, FiniteSets, TLC

VARIABLES now, enabled, memory_cache, disk_cache, last, req, call, run, stored,
          flow, permuted, derived, chunker, split, conc, templ, upload

cacheVars == <<now, enabled, memory_cache, disk_cache>>
reqVars == <<req, call>>
runVars == <<run, stored>>
lateVars == <<templ, upload>>
stepVars == <<chunker, split, conc, lateVars>>
auxVars == <<flow, permuted, derived, stepVars>>
vars == <<now, enabled, memory_cache, disk_cache, last, req, call, run, stored,
          flow, permuted, derived, chunker, split, conc, templ, upload>>

(***************************************************************************)
(* Bounds of the model.                                                    *)
(***************************************************************************)
\* the clock stops here
MaxHours == 48
\* one step of the clock
TickHours == 24

(***************************************************************************)
(* utils/cache.py                                                          *)
(***************************************************************************)
\* config 'cache.ttl_hours'
ttl_hours == 24

\* the keys callers of the cache use in the cache-only specification
CacheKeys == {<<"test_key">>, <<"other_key">>}

\* the values callers store in the cache-only specification
CacheValues == {<<"a">>, <<"b">>}

\* Optional[Any]: a value or None
None == [found |-> FALSE, value |-> <<>>]

Some(v) == [found |-> TRUE, value |-> v]

\* Cache._get_cache_key: the md5 digest of the key (injective on the keys used)
CacheKeyHash(key) == <<"md5">> \o key

IsExpiredEarly(timestamp, t) == t - timestamp >= ttl_hours

CacheSetTiersWriteThrough(mem, dsk, key, value, memory_only, t) ==
    LET ck == <<"md5">> \o key
        cache_data == [key |-> key, value |-> value, timestamp |-> t]
    IN [mem |-> [x \in (DOMAIN mem) \cup {ck} |-> IF x = ck THEN cache_data ELSE mem[x]],
        dsk |-> [x \in (DOMAIN dsk) \cup {ck} |-> IF x = ck THEN cache_data ELSE dsk[x]]]

CacheGetTiersRefreshing(mem, dsk, key, t) ==
    LET ck == <<"md5">> \o key
        memHit == ck \in DOMAIN mem /\ ~(t - mem[ck].timestamp > ttl_hours)
        dskHit == ck \in DOMAIN dsk /\ ~(t - dsk[ck].timestamp > ttl_hours)
        others == [x \in (DOMAIN mem) \ {ck} |-> mem[x]]
    IN IF memHit
       THEN [result |-> [found |-> TRUE, value |-> mem[ck].value], mem |-> mem, dsk |-> dsk]
       ELSE IF dskHit
       THEN [result |-> [found |-> TRUE, value |-> dsk[ck].value],
             mem |-> [x \in (DOMAIN mem) \cup {ck} |->
                        IF x = ck THEN [dsk[ck] EXCEPT !.timestamp = t] ELSE mem[x]],
             dsk |-> dsk]
       ELSE [result |-> [found |-> FALSE, value |-> <<>>], mem |-> others,
             dsk |-> [x \in (DOMAIN dsk) \ {ck} |-> dsk[x]]]

\* Cache._is_expired, at clock reading t
IsExpired(timestamp, t) == t - timestamp > ttl_hours

\* del d[k]
DictDel(d, k) == [x \in (DOMAIN d) \ {k} |-> d[x]]

\* d[k] = e
DictPut(d, k, e) == [x \in (DOMAIN d) \cup {k} |-> IF x = k THEN e ELSE d[x]]

EmptyDict == [x \in {} |-> None]

CacheSetTiersVolatile(mem, dsk, key, value, memory_only, t) ==
    LET ck == CacheKeyHash(key)
        cache_data == [key |-> key, value |-> value, timestamp |-> t]
    IN [mem |-> DictPut(mem, ck, cache_data), dsk |-> dsk]

\* Cache.set with the cache enabled: the tiers after the call
CacheSetTiers(mem, dsk, key, value, memory_only, t) ==
    LET ck == CacheKeyHash(key)
        cache_data == [key |-> key, value |-> value, timestamp |-> t]
    IN [mem |-> DictPut(mem, ck, cache_data),
        dsk |-> IF memory_only THEN dsk ELSE DictPut(dsk, ck, cache_data)]

\* Cache.get with the cache enabled: the value returned and the tiers after
CacheGetTiers(mem, dsk, key, t) ==
    LET ck == CacheKeyHash(key)
        memHit == ck \in DOMAIN mem /\ ~IsExpired(mem[ck].timestamp, t)
        \* an expired in-process entry is deleted before the file is looked at
        mem1 == IF ck \in DOMAIN mem /\ ~memHit THEN DictDel(mem, ck) ELSE mem
    IN IF memHit
       THEN [result |-> Some(mem[ck].value), mem |-> mem, dsk |-> dsk]
       ELSE IF ck \in DOMAIN dsk
            THEN IF ~IsExpired(dsk[ck].timestamp, t)
                 THEN [result |-> Some(dsk[ck].value),
                       mem |-> DictPut(mem1, ck, dsk[ck]), dsk |-> dsk]
                 ELSE [result |-> None, mem |-> mem1, dsk |-> DictDel(dsk, ck)]
            ELSE [result |-> None, mem |-> mem1, dsk |-> dsk]

\* Cache._cleanup_expired: the durable tier without its expired files
CleanupExpired(dsk, t) ==
    [x \in {y \in DOMAIN dsk : ~IsExpired(dsk[y].timestamp, t)} |-> dsk[x]]

\* what a cache operation saw and returned
NoOp == [op |-> "none", key |-> <<>>, result |-> None, memory_only |-> FALSE,
         mem |-> EmptyDict, dsk |-> EmptyDict]

Seen(op, key, result) ==
    [op |-> op, key |-> key, result |-> result, memory_only |-> FALSE,
     mem |-> memory_cache, dsk |-> disk_cache]

\* Cache.set
Set(key, value, memory_only) ==
    /\ IF enabled
       THEN LET r == CacheSetTiers(memory_cache, disk_cache, key, value,
                                   memory_only, now)
            IN /\ memory_cache' = r.mem
               /\ disk_cache' = r.dsk
       ELSE UNCHANGED <<memory_cache, disk_cache>>
    /\ last' = [Seen("set", key, Some(value)) EXCEPT !.memory_only = memory_only]
    /\ UNCHANGED <<now, enabled, reqVars, runVars, auxVars>>

\* Cache.get
Get(key) ==
    /\ IF enabled
       THEN LET r == CacheGetTiers(memory_cache, disk_cache, key, now)
            IN /\ memory_cache' = r.mem
               /\ disk_cache' = r.dsk
               /\ last' = Seen("get", key, r.result)
       ELSE /\ UNCHANGED <<memory_cache, disk_cache>>
            /\ last' = Seen("get", key, None)
    /\ UNCHANGED <<now, enabled, reqVars, runVars, auxVars>>

\* Cache.delete
Delete(key) ==
    /\ memory_cache' = DictDel(memory_cache, CacheKeyHash(key))
    /\ disk_cache' = DictDel(disk_cache, CacheKeyHash(key))
    /\ last' = Seen("delete", key, None)
    /\ UNCHANGED <<now, enabled, reqVars, runVars, auxVars>>

\* Cache.clear
Clear ==
    /\ memory_cache' = EmptyDict
    /\ disk_cache' = EmptyDict
    /\ last' = [NoOp EXCEPT !.op = "clear"]
    /\ stored' = EmptyDict
    /\ UNCHANGED <<now, enabled, reqVars, run, auxVars>>

\* time.time() advances
Tick ==
    /\ now + TickHours <= MaxHours
    /\ now' = now + TickHours
    /\ last' = [NoOp EXCEPT !.op = "tick"]
    /\ UNCHANGED <<enabled, memory_cache, disk_cache, reqVars, runVars, auxVars>>

\* Cache.__init__ in a new process: the in-process tier starts empty, the
\* configuration is read again, the expired files are swept when enabled
Restart(e) ==
    /\ enabled' = e
    /\ memory_cache' = EmptyDict
    /\ disk_cache' = IF e THEN CleanupExpired(disk_cache, now) ELSE disk_cache
    /\ last' = [NoOp EXCEPT !.op = "restart"]
    /\ UNCHANGED <<now, reqVars, runVars, auxVars>>

NextCache ==
    \/ \E k \in CacheKeys, v \in CacheValues, mo \in BOOLEAN : Set(k, v, mo)
    \/ \E k \in CacheKeys : Get(k)
    \/ \E k \in CacheKeys : Delete(k)
    \/ Clear
    \/ Tick
    \/ \E e \in BOOLEAN : Restart(e)

(***************************************************************************)
(* utils/api_utils.py: APIUtils.make_request                               *)
(***************************************************************************)
\* the largest max_retries a call is made with
MaxRetriesBound == 4
\* the largest retry_delay a call is made with
MaxDelayBound == 2

\* the result texts a remote service sends
Contents == {<<"a">>, <<" ", "b", " ">>, <<" ">>}

\* the shapes of a JSON body: which key holds the result text ("empty" is a
\* falsy JSON value such as {} or null, "none" a dict with no known key)
Shapes == {"text", "data_text", "choices_text", "choices_message", "none", "empty"}

NoData == [shape |-> "absent", text |-> <<>>]

\* what requests.request does: an HTTP response, or one of the exceptions
HttpResponse(status, json, shape, text) ==
    [kind |-> "http", status |-> status, json |-> json, shape |-> shape, text |-> text]

Raised(kind) ==
    [kind |-> kind, status |-> 0, json |-> FALSE, shape |-> "absent", text |-> <<>>]

OkResponses ==
    {HttpResponse(200, TRUE, s, c) : s \in Shapes \ {"empty"}, c \in Contents}
        \cup {HttpResponse(200, TRUE, "empty", <<>>)}
        \cup {HttpResponse(200, FALSE, "absent", c) : c \in Contents}

ErrorStatuses == {302, 400, 404, 499, 500, 503}

ErrorResponses == {HttpResponse(st, FALSE, "absent", <<"e">>) : st \in ErrorStatuses}

Exceptions == {Raised("timeout"), Raised("connection"), Raised("exception")}

Responses == OkResponses \cup ErrorResponses \cup Exceptions

\* an error or warning message: its kind and the number it quotes
Msg(kind, code) == [kind |-> kind, code |-> code]

NoError == Msg("none", 0)

\* error_msg of one attempt
ErrorOf(resp) ==
    IF resp.kind = "http" THEN Msg("http", resp.status) ELSE Msg(resp.kind, 0)

\* response.json(), or {'text': response.text} when the body is not JSON
ParsedBodyNoFallback(resp) == [shape |-> resp.shape, text |-> resp.text]

ParsedBody(resp) ==
    IF resp.json THEN [shape |-> resp.shape, text |-> resp.text]
    ELSE [shape |-> "text", text |-> resp.text]

IsClientErrorNarrow(status) == 400 <= status /\ status < 499

\* 400 <= response.status_code < 500
IsClientError(status) == 400 <= status /\ status < 500

RECURSIVE Pow2(_)
Pow2(n) == IF n = 0 THEN 1 ELSE 2 * Pow2(n - 1)

BackoffLinear(retry_delay, attempt) == retry_delay * (attempt + 1)

\* retry_delay * (2 ** attempt)
Backoff(retry_delay, attempt) == retry_delay * Pow2(attempt)

IsLastAttemptOffByOne(attempt, max_retries) == attempt = max_retries

\* attempt == max_retries - 1
IsLastAttempt(attempt, max_retries) == attempt = max_retries - 1

ReqResult(success, data, error) == [success |-> success, data |-> data, error |-> error]

ReqIdle ==
    [pc |-> "idle", max_retries |-> 0, retry_delay |-> 0, attempt |-> 0,
     hist |-> <<>>, delays |-> <<>>, slept |-> FALSE,
     result |-> ReqResult(FALSE, NoData, NoError)]

\* entering make_request: range(max_retries) is empty when max_retries is 0,
\* and the call falls through to the final return
ReqCalled(max_retries, retry_delay) ==
    IF max_retries = 0
    THEN [ReqIdle EXCEPT !.pc = "returned", !.retry_delay = retry_delay,
                         !.result = ReqResult(FALSE, NoData, Msg("failed", 0))]
    ELSE [ReqIdle EXCEPT !.pc = "active", !.max_retries = max_retries,
                         !.retry_delay = retry_delay]

\* one iteration of the for loop, the request answered by resp
ReqAttempted(r, resp) ==
    LET sent == [r EXCEPT !.hist = Append(r.hist, resp), !.slept = FALSE]
        return(res) == [sent EXCEPT !.pc = "returned", !.result = res]
        failed == ReqResult(FALSE, NoData, ErrorOf(resp))
    IN IF resp.kind = "http" /\ resp.status = 200
       THEN return(ReqResult(TRUE, ParsedBody(resp), NoError))
       ELSE IF resp.kind = "http" /\ IsClientError(resp.status)
       THEN return(failed)
       ELSE IF IsLastAttempt(r.attempt, r.max_retries)
       THEN return(failed)
       ELSE \* attempt < max_retries - 1: time.sleep, then the next iteration
            [sent EXCEPT !.delays = Append(r.delays, Backoff(r.retry_delay, r.attempt)),
                         !.slept = TRUE,
                         !.attempt = r.attempt + 1]

\* a caller enters make_request
Call(max_retries, retry_delay) ==
    /\ req.pc \in {"idle", "returned"}
    /\ req' = ReqCalled(max_retries, retry_delay)
    /\ UNCHANGED <<cacheVars, last, call, runVars, auxVars>>

\* the request of the current attempt is sent and answered
Attempt(resp) ==
    /\ req.pc = "active"
    /\ req' = ReqAttempted(req, resp)
    /\ UNCHANGED <<cacheVars, last, call, runVars, auxVars>>

NextReq ==
    \/ \E mr \in 0..MaxRetriesBound, rd \in 1..MaxDelayBound : Call(mr, rd)
    \/ \E resp \in Responses : Attempt(resp)

(***************************************************************************)
(* The remote clients: transcribe/siliconflow_client.py and                *)
(* ai_process/deepseek_client.py                                           *)
(***************************************************************************)
\* make_request's default max_retries
DefaultMaxRetries == 3
\* make_request's default retry_delay
DefaultRetryDelay == 1

Whitespace == {" ", "\n"}

RECURSIVE StripLeft(_)
StripLeft(t) ==
    IF t # <<>> /\ Head(t) \in Whitespace THEN StripLeft(Tail(t)) ELSE t

RECURSIVE StripRight(_)
StripRight(t) ==
    IF t # <<>> /\ t[Len(t)] \in Whitespace
    THEN StripRight(SubSeq(t, 1, Len(t) - 1)) ELSE t

\* str.strip()
Strip(t) == StripRight(StripLeft(t))

Clients == {"siliconflow", "deepseek"}

ExtractAnyShape(client, data) ==
    IF data.shape \in {"none", "empty", "absent"} THEN None ELSE Some(Strip(data.text))

\* SiliconFlowClient._extract_transcription_text and
\* DeepSeekClient._extract_response_text: the stripped result text, or None
\* when the response has none of the shapes the client knows
ExtractText(client, data) ==
    IF client = "siliconflow"
    THEN IF data.shape \in {"text", "data_text", "choices_text", "choices_message"}
         THEN Some(Strip(data.text)) ELSE None
    ELSE IF data.shape \in {"choices_message", "text"}
         THEN Some(Strip(data.text)) ELSE None

\* (success, text, error_message)
Outcome(success, text, error) == [success |-> success, text |-> text, error |-> error]

NoOutcome == Outcome(FALSE, <<>>, NoError)

\* the tail of transcribe_audio and of _process_single_text: the outcome made
\* of make_request's result
ClientOutcome(client, res) ==
    IF res.success /\ res.data.shape # "empty"
    THEN LET text == ExtractText(client, res.data)
         IN IF text.found /\ text.value # <<>>
            THEN Outcome(TRUE, text.value, NoError)
            ELSE Outcome(FALSE, <<>>, Msg("format", 0))
    ELSE Outcome(FALSE, <<>>,
                 IF res.error = NoError THEN Msg("api_failed", 0) ELSE res.error)

CallIdle == [pc |-> "idle", client |-> "none", outcome |-> NoOutcome]

\* transcribe_audio / _process_single_text up to the request: the
\* SiliconFlow client refuses without an API key or without the file
ClientStart(client, has_key, has_file) ==
    /\ call.pc \in {"idle", "returned"}
    /\ IF client = "siliconflow" /\ ~has_key
       THEN /\ call' = [pc |-> "returned", client |-> client,
                        outcome |-> Outcome(FALSE, <<>>, Msg("no_api_key", 0))]
            /\ req' = ReqIdle
       ELSE IF client = "siliconflow" /\ ~has_file
       THEN /\ call' = [pc |-> "returned", client |-> client,
                        outcome |-> Outcome(FALSE, <<>>, Msg("no_file", 0))]
            /\ req' = ReqIdle
       ELSE /\ call' = [pc |-> "waiting", client |-> client, outcome |-> NoOutcome]
            /\ req' = ReqCalled(DefaultMaxRetries, DefaultRetryDelay)
    /\ UNCHANGED <<cacheVars, last, runVars, auxVars>>

\* make_request has returned to the client
ClientReturn ==
    /\ call.pc = "waiting"
    /\ req.pc = "returned"
    /\ call' = [call EXCEPT !.pc = "returned",
                            !.outcome = ClientOutcome(call.client, req.result)]
    /\ UNCHANGED <<cacheVars, last, req, runVars, auxVars>>

NextClient ==
    \/ \E c \in Clients, k \in BOOLEAN, f \in BOOLEAN : ClientStart(c, k, f)
    \/ \E resp \in Responses : Attempt(resp)
    \/ ClientReturn

(***************************************************************************)
(* Text helpers: utils/api_utils.py chunk_text and estimate_tokens         *)
(***************************************************************************)
\* the chunk length and overlap _process_text_chunks passes to chunk_text
\* (2000 and 200 in the source), scaled to the texts of the model
ChunkMaxLength == 3
ChunkOverlap == 1

\* config 'ai_process.max_tokens': twice the chunk length, as 4000 is of 2000
MaxTokens == 2 * ChunkMaxLength

\* the six sentence enders: . ! ? and their full-width CJK forms
Terminators == {".", "!", "?", "cjk.", "cjk!", "cjk?"}

\* a character in the range U+4E00..U+9FFF
IsCJK(c) == c \in {"zi", "wen"}

RECURSIVE Join(_, _)
\* sep.join(parts)
Join(parts, sep) ==
    IF parts = <<>> THEN <<>>
    ELSE IF Len(parts) = 1 THEN parts[1]
    ELSE parts[1] \o sep \o Join(Tail(parts), sep)

\* the for loop of chunk_text: the end of the chunk that starts at start,
\* scanning i = end, end-1, ..., start+max_length-overlap+1 (0-based) for a
\* sentence terminator
RECURSIVE ScanBack(_, _, _, _)
ScanBack(text, i, stop, end) ==
    IF i <= stop THEN end
    ELSE IF text[i + 1] \in Terminators THEN i + 1
    ELSE ScanBack(text, i - 1, stop, end)

RECURSIVE ChunkLoop(_, _, _, _)
\* the while loop of chunk_text
ChunkLoop(text, max_length, overlap, start) ==
    IF start >= Len(text) THEN <<>>
    ELSE LET end == start + max_length
         IN IF end >= Len(text)
            THEN <<SubSeq(text, start + 1, Len(text))>>
            ELSE LET cut == ScanBack(text, end, start + max_length - overlap, end)
                 IN <<SubSeq(text, start + 1, cut)>>
                        \o ChunkLoop(text, max_length, overlap, cut - overlap)

\* APIUtils.chunk_text
ChunkText(text, max_length, overlap) ==
    IF Len(text) <= max_length THEN <<text>>
    ELSE ChunkLoop(text, max_length, overlap, 0)

RECURSIVE RemoveAll(_, _)
\* text.replace(sub, '')
RemoveAll(text, sub) ==
    IF sub = <<>> \/ Len(text) < Len(sub) THEN text
    ELSE IF SubSeq(text, 1, Len(sub)) = sub
    THEN RemoveAll(SubSeq(text, Len(sub) + 1, Len(text)), sub)
    ELSE <<Head(text)>> \o RemoveAll(Tail(text), sub)

\* len(text.split()): the number of maximal runs of non-whitespace
WordCount(text) ==
    Cardinality({i \in 1..Len(text) :
                    /\ text[i] \notin Whitespace
                    /\ (i = 1 \/ text[i - 1] \in Whitespace)})

\* APIUtils.estimate_tokens
EstimateTokens(text) ==
    LET chinese == SelectSeq(text, IsCJK)
    IN Len(chinese) + WordCount(RemoveAll(text, chinese))

(***************************************************************************)
(* The mergers: SegmentProcessor.merge_transcripts and the merging part    *)
(* of DeepSeekClient._process_text_chunks                                  *)
(***************************************************************************)
\* a merger's return value, with its two counters as they stand at return
Merged(success, text, error, failed, succeeded) ==
    [success |-> success, text |-> text, error |-> error,
     failed |-> failed, succeeded |-> succeeded]

\* if success and text
Usable(o) == o.success /\ o.text # <<>>

MergeTranscriptsAllOrNothing(segment_results) ==
    LET successful_results ==
            [i \in 1..Len(SelectSeq(segment_results, Usable)) |->
                Strip(SelectSeq(segment_results, Usable)[i].text)]
        failed_count == Len(segment_results) - Len(successful_results)
    IN IF failed_count > 0
       THEN Merged(FALSE, <<>>, Msg("all_segments_failed", 0),
                   failed_count, Len(successful_results))
       ELSE Merged(TRUE, Join(successful_results, <<"\n">>), NoError,
                   failed_count, Len(successful_results))

MergeTranscriptsUpToFailure(segment_results) ==
    LET Failed(k) == ~Usable(segment_results[k])
        before == IF \E k \in 1..Len(segment_results) : Failed(k)
                  THEN (CHOOSE k \in 1..Len(segment_results) :
                            Failed(k) /\ \A j \in 1..(k - 1) : ~Failed(j)) - 1
                  ELSE Len(segment_results)
        successful_results ==
            [i \in 1..before |-> Strip(segment_results[i].text)]
        failed_count == Len(segment_results) - before
    IN IF before = 0
       THEN Merged(FALSE, <<>>, Msg("all_segments_failed", 0), failed_count, 0)
       ELSE Merged(TRUE, Join(successful_results, <<"\n">>),
                   IF failed_count > 0 THEN Msg("segments_failed", failed_count)
                   ELSE NoError,
                   failed_count, before)

MergeTranscriptsBlankForFailed(segment_results) ==
    LET lines == [i \in 1..Len(segment_results) |->
                    IF Usable(segment_results[i])
                    THEN Strip(segment_results[i].text) ELSE <<>>]
        succeeded == Len(SelectSeq(segment_results, Usable))
        failed_count == Len(segment_results) - succeeded
    IN IF succeeded = 0
       THEN Merged(FALSE, <<>>, Msg("all_segments_failed", 0), failed_count, 0)
       ELSE Merged(TRUE, Join(lines, <<"\n">>),
                   IF failed_count > 0 THEN Msg("segments_failed", failed_count)
                   ELSE NoError,
                   failed_count, succeeded)

\* SegmentProcessor.merge_transcripts
MergeTranscripts(segment_results) ==
    LET successful_results ==
            [i \in 1..Len(SelectSeq(segment_results, Usable)) |->
                Strip(SelectSeq(segment_results, Usable)[i].text)]
        failed_count == Len(segment_results) - Len(successful_results)
    IN IF successful_results = <<>>
       THEN Merged(FALSE, <<>>, Msg("all_segments_failed", 0),
                   failed_count, 0)
       ELSE Merged(TRUE, Join(successful_results, <<"\n">>),
                   IF failed_count > 0 THEN Msg("segments_failed", failed_count)
                   ELSE NoError,
                   failed_count, Len(successful_results))

\* the marker put in front of a chunk that could not be processed
FailedPrefix == <<"[failed, original text] ">>

MergeChunksDroppingFailed(chunks, outcomes) ==
    LET processed_chunks ==
            [i \in 1..Len(SelectSeq(outcomes, Usable)) |->
                SelectSeq(outcomes, Usable)[i].text]
        failed_chunks == Len(outcomes) - Len(processed_chunks)
    IN Merged(TRUE, Join(processed_chunks, <<"\n", "\n">>),
              IF failed_chunks > 0 THEN Msg("chunks_failed", failed_chunks)
              ELSE NoError,
              failed_chunks, Len(processed_chunks))

MergeChunksMiscounted(chunks, outcomes) ==
    LET processed_chunks ==
            [i \in 1..Len(chunks) |->
                IF Usable(outcomes[i]) THEN outcomes[i].text
                ELSE FailedPrefix \o chunks[i]]
        failed_chunks == Len(SelectSeq(outcomes, LAMBDA o : ~Usable(o)))
    IN Merged(TRUE, Join(processed_chunks, <<"\n", "\n">>),
              IF failed_chunks > 1 THEN Msg("chunks_failed", failed_chunks - 1)
              ELSE NoError,
              failed_chunks, Len(chunks) - failed_chunks)

\* DeepSeekClient._process_text_chunks after its calls: every chunk has put
\* one item in processed_chunks, its result or its marked original text
MergeChunks(chunks, outcomes) ==
    LET processed_chunks ==
            [i \in 1..Len(chunks) |->
                IF Usable(outcomes[i]) THEN outcomes[i].text
                ELSE FailedPrefix \o chunks[i]]
        failed_chunks == Len(SelectSeq(outcomes, LAMBDA o : ~Usable(o)))
    IN IF processed_chunks = <<>>
       THEN Merged(FALSE, <<>>, Msg("all_chunks_failed", 0), failed_chunks, 0)
       ELSE Merged(TRUE, Join(processed_chunks, <<"\n", "\n">>),
                   IF failed_chunks > 0 THEN Msg("chunks_failed", failed_chunks)
                   ELSE NoError,
                   failed_chunks, Len(chunks) - failed_chunks)

(***************************************************************************)
(* The orchestrators: Transcriber.transcribe and                           *)
(* TextProcessor.process_with_template                                     *)
(***************************************************************************)
\* the number of calls of transcribe / process_with_template in a behaviour
MaxRuns == 2

\* config 'transcribe.chunk_duration_seconds'
chunk_duration == 60
\* config 'transcribe.max_file_size_mb'
max_file_size_mb == 100
\* _split_by_file_size: max_chunk_size_mb
max_chunk_size_mb == 25

Ceil(a, b) == (a + b - 1) \div b

\* an input artifact with its processing spec (the language of a
\* transcription, the template of a text processing)
Job(mode, hash, exists, duration, size_mb, body, spec) ==
    [mode |-> mode, hash |-> hash, exists |-> exists, duration |-> duration,
     size_mb |-> size_mb, body |-> body, spec |-> spec]

LongText == <<"zi", "zi", "zi", "zi", "zi">>

Jobs ==
    {Job("audio", "short", TRUE, 30, 1, <<>>, lang) : lang \in {"zh", "en"}}
        \cup {Job("audio", "long", TRUE, 150, 5, <<>>, "zh"),
              Job("audio", "gone", FALSE, 0, 0, <<>>, "zh")}
        \cup {Job("text", "T1", TRUE, 0, 0, <<"zi">>, t) : t \in {"tpl1", "tpl2"}}
        \cup {Job("text", "T5", TRUE, 0, 0, LongText, "tpl1"),
              Job("text", "T0", TRUE, 0, 0, <<" ">>, "tpl1"),
              Job("text", "T1", TRUE, 0, 0, <<"zi">>, "tpl_blank"),
              Job("text", "T1", TRUE, 0, 0, <<"zi">>, "no_such_template")}

\* config.get_prompt: the user prompt of each template
Prompts ==
    [t \in {"tpl1", "tpl2", "tpl_blank"} |->
        IF t = "tpl_blank" THEN <<" ">> ELSE <<"p">>]

\* Transcriber._get_cache_key and TextProcessor._get_cache_key
RunKey(job) ==
    IF job.mode = "audio" THEN <<"transcribe", job.hash, job.spec>>
    ELSE <<"ai_process", job.spec, job.hash>>

\* Transcriber._should_split_audio
ShouldSplit(job) ==
    \/ job.size_mb * 10 > max_file_size_mb * 8
    \/ job.duration > chunk_duration * 2

Whole(job) == <<job.hash, "whole", 0>>

\* SegmentProcessor._split_by_file_size: the input itself when it is small,
\* else one copy per max_chunk_size_mb
SplitByFileSize(job) ==
    IF job.size_mb <= max_chunk_size_mb THEN <<Whole(job)>>
    ELSE [i \in 1..Ceil(job.size_mb, max_chunk_size_mb) |-> <<job.hash, "copy", i>>]

\* SegmentProcessor.split_audio, the framework and library splits having
\* produced `produced` of the num_segments pieces
SplitAudio(job, produced) ==
    IF job.duration <= chunk_duration THEN <<Whole(job)>>
    ELSE IF produced > 0 THEN [i \in 1..produced |-> <<job.hash, "part", i>>]
    ELSE SplitByFileSize(job)

NumSegments(job) == Ceil(job.duration, chunk_duration)

\* the responses the services give during a run
RunResponses ==
    {HttpResponse(200, TRUE, "text", <<" ", "a">>),
     HttpResponse(404, FALSE, "absent", <<"e">>),
     HttpResponse(503, FALSE, "absent", <<"e">>)}

RunResponseSeqs ==
    UNION {[1..n -> RunResponses] : n \in 1..DefaultMaxRetries}

RECURSIVE MakeRequest(_, _)
\* make_request run to its return on the responses resps
MakeRequest(r, resps) ==
    IF r.pc # "active" \/ resps = <<>> THEN r
    ELSE MakeRequest(ReqAttempted(r, Head(resps)), Tail(resps))

\* (success, text, error)
Result(success, text, error) == [success |-> success, text |-> text, error |-> error]

NoCounts == [failed |-> 0, succeeded |-> 0]

RunIdle ==
    [pc |-> "idle", no |-> 0, job |-> Job("none", "none", FALSE, 0, 0, <<>>, "none"),
     has_key |-> FALSE, looked_up |-> FALSE, lookup_at |-> 0, hit |-> FALSE,
     single |-> FALSE, segs |-> <<>>, outcomes |-> <<>>,
     sent |-> 0, writes |-> 0, merged |-> FALSE, counts |-> NoCounts,
     result |-> Result(FALSE, <<>>, NoError)]

\* a run that returns before any remote call
Returned(r, res) == [r EXCEPT !.pc = "done", !.result = res]

TextPlanNoTextCheck(r) ==
    IF ~r.has_key THEN Returned(r, Result(FALSE, <<>>, Msg("no_api_key", 0)))
    ELSE IF Strip(Prompts[r.job.spec]) = <<>>
    THEN Returned(r, Result(FALSE, <<>>, Msg("empty_prompt", 0)))
    ELSE [r EXCEPT !.pc = "calling", !.single = TRUE, !.segs = <<r.job.body>>]

\* process_text's checks and its choice between one call and chunks
TextPlan(r) ==
    IF ~r.has_key THEN Returned(r, Result(FALSE, <<>>, Msg("no_api_key", 0)))
    ELSE IF Strip(r.job.body) = <<>>
    THEN Returned(r, Result(FALSE, <<>>, Msg("empty_text", 0)))
    ELSE IF Strip(Prompts[r.job.spec]) = <<>>
    THEN Returned(r, Result(FALSE, <<>>, Msg("empty_prompt", 0)))
    ELSE IF EstimateTokens(r.job.body) > MaxTokens \div 2
    THEN [r EXCEPT !.pc = "calling", !.single = FALSE,
                   !.segs = ChunkText(r.job.body, ChunkMaxLength, ChunkOverlap)]
    ELSE [r EXCEPT !.pc = "calling", !.single = TRUE, !.segs = <<r.job.body>>]

\* transcribe's choice between one call and segments
AudioPlan(r, produced) ==
    IF ShouldSplit(r.job)
    THEN LET segments == SplitAudio(r.job, produced)
         IN IF segments = <<>>
            THEN Returned(r, Result(FALSE, <<>>, Msg("split_failed", 0)))
            ELSE [r EXCEPT !.pc = "calling", !.single = FALSE, !.segs = segments]
    ELSE [r EXCEPT !.pc = "calling", !.single = TRUE, !.segs = <<Whole(r.job)>>]

\* transcribe / process_with_template from their entry to the first remote
\* call: validation, cache lookup, and the plan of the calls
BeginRun(job, has_key, produced) ==
    /\ run.pc = "idle"
    /\ run.no < MaxRuns
    /\ LET r0 == [RunIdle EXCEPT !.no = run.no + 1, !.job = job, !.has_key = has_key]
           invalid == IF job.mode = "audio" THEN ~job.exists
                      ELSE job.spec \notin DOMAIN Prompts
       IN IF invalid
          THEN /\ run' = Returned(r0, Result(FALSE, <<>>, Msg("invalid_input", 0)))
               /\ UNCHANGED <<memory_cache, disk_cache>>
          ELSE LET got == IF enabled
                          THEN CacheGetTiers(memory_cache, disk_cache, RunKey(job), now)
                          ELSE [result |-> None, mem |-> memory_cache, dsk |-> disk_cache]
                   r1 == [r0 EXCEPT !.looked_up = TRUE, !.lookup_at = now]
               IN /\ memory_cache' = got.mem
                  /\ disk_cache' = got.dsk
                  /\ run' = IF got.result.found /\ got.result.value # <<>>
                            THEN [Returned(r1, Result(TRUE, got.result.value, NoError))
                                    EXCEPT !.hit = TRUE]
                            ELSE IF job.mode = "audio" THEN AudioPlan(r1, produced)
                            ELSE TextPlan(r1)
    /\ UNCHANGED <<now, enabled, last, reqVars, stored, auxVars>>

\* one segment call: client.transcribe_audio on the next segment, or
\* _process_single_text on the next chunk, answered by resps
SegCall(resps) ==
    /\ run.pc = "calling"
    /\ Len(run.outcomes) < Len(run.segs)
    /\ LET client == IF run.job.mode = "audio" THEN "siliconflow" ELSE "deepseek"
           refused == client = "siliconflow" /\ ~run.has_key
           r == MakeRequest(ReqCalled(DefaultMaxRetries, DefaultRetryDelay), resps)
       IN IF refused
          THEN /\ resps = <<>>
               /\ run' = [run EXCEPT !.outcomes =
                            Append(@, Outcome(FALSE, <<>>, Msg("no_api_key", 0)))]
          ELSE /\ resps # <<>>
               /\ r.pc = "returned"
               /\ Len(r.hist) = Len(resps)
               /\ run' = [run EXCEPT !.outcomes =
                                        Append(@, ClientOutcome(client, r.result)),
                                     !.sent = @ + Len(resps)]
    /\ UNCHANGED <<cacheVars, last, reqVars, stored, auxVars>>

\* the end of the run: the merge of the outcomes, the cache write, the return
Finish ==
    /\ run.pc = "calling"
    /\ Len(run.outcomes) = Len(run.segs)
    /\ LET m == IF run.single
                THEN Merged(run.outcomes[1].success, run.outcomes[1].text,
                            run.outcomes[1].error, 0, 0)
                ELSE IF run.job.mode = "audio" THEN MergeTranscripts(run.outcomes)
                ELSE MergeChunks(run.segs, run.outcomes)
           res == Result(m.success, m.text, m.error)
           write == res.success /\ res.text # <<>> /\ enabled
           set == CacheSetTiers(memory_cache, disk_cache, RunKey(run.job), res.text,
                                FALSE, now)
       IN /\ run' = [run EXCEPT !.pc = "done", !.result = res,
                                !.merged = ~run.single,
                                !.counts = [failed |-> m.failed,
                                            succeeded |-> m.succeeded],
                                !.writes = IF write THEN @ + 1 ELSE @]
          /\ memory_cache' = IF write THEN set.mem ELSE memory_cache
          /\ disk_cache' = IF write THEN set.dsk ELSE disk_cache
          \* the record of the run's result, for the next run to be compared with
          /\ stored' = IF res.success /\ enabled
                       THEN DictPut(stored, RunKey(run.job),
                                    [text |-> res.text, at |-> now,
                                     error |-> res.error])
                       ELSE stored
    /\ UNCHANGED <<now, enabled, last, reqVars, auxVars>>

\* the caller has taken the result
Return ==
    /\ run.pc = "done"
    /\ run' = [RunIdle EXCEPT !.no = run.no]
    /\ UNCHANGED <<cacheVars, last, reqVars, stored, auxVars>>

\* between two runs the application is started again, time passes, the
\* user clears the cache
RestartBetweenRuns(e) ==
    /\ run.pc = "idle"
    /\ Restart(e)

TickBetweenRuns ==
    /\ run.pc = "idle"
    /\ Tick

ClearBetweenRuns ==
    /\ run.pc = "idle"
    /\ Clear

NextRun ==
    \/ \E job \in Jobs, k \in BOOLEAN :
          \E n \in 0..NumSegments(job) : BeginRun(job, k, n)
    \/ \E resps \in RunResponseSeqs \cup {<<>>} : SegCall(resps)
    \/ Finish
    \/ Return
    \/ TickBetweenRuns
    \/ ClearBetweenRuns
    \/ \E e \in BOOLEAN : RestartBetweenRuns(e)

(***************************************************************************)
(* Specifications                                                          *)
(***************************************************************************)
\* a fresh installation: no cache file, nothing in flight
(***************************************************************************)
(* merge_transcripts on one list of outcomes and on the same outcomes in   *)
(* another order                                                           *)
(***************************************************************************)
\* the longest list of outcomes handed to merge_transcripts
MaxMergeLen == 3

\* the (success, text, error) tuples transcribe_audio returns
SegmentOutcomes ==
    {Outcome(TRUE, <<"a">>, NoError), Outcome(TRUE, <<"b">>, NoError),
     Outcome(FALSE, <<>>, Msg("http", 503))}

\* the orders in which n outcomes can arrive
Orders(n) == {f \in [1..n -> 1..n] : \A i, j \in 1..n : f[i] = f[j] => i = j}

PermutedIdle ==
    [pc |-> "idle", results |-> <<>>, order |-> <<>>,
     in_order |-> Merged(FALSE, <<>>, NoError, 0, 0),
     shuffled |-> Merged(FALSE, <<>>, NoError, 0, 0)]

\* merge_transcripts(results), and merge_transcripts of the list that holds
\* results[order[1]], results[order[2]], ...
MergeShuffled(results, order) ==
    /\ permuted.pc = "idle"
    /\ permuted' = [pc |-> "done", results |-> results, order |-> order,
                    in_order |-> MergeTranscripts(results),
                    shuffled |-> MergeTranscripts(
                                    [i \in 1..Len(results) |-> results[order[i]]])]
    /\ UNCHANGED <<cacheVars, last, reqVars, runVars, flow, derived, stepVars>>

NextMerge ==
    \E n \in 1..MaxMergeLen :
        \E results \in [1..n -> SegmentOutcomes], order \in Orders(n) :
            MergeShuffled(results, order)

(***************************************************************************)
(* TextProcessor._get_cache_key_for_custom                                 *)
(***************************************************************************)
\* the longest text and the longest prompt of a request
MaxKeyLen == 2

RECURSIVE SeqsUpTo(_, _)
\* the sequences over alphabet of length at most n
SeqsUpTo(alphabet, n) ==
    IF n = 0 THEN {<<>>}
    ELSE LET shorter == SeqsUpTo(alphabet, n - 1)
         IN shorter \cup {Append(q, c) : q \in shorter, c \in alphabet}

\* a character str.encode('utf-8') refuses
LoneSurrogate == "lone_surrogate"

KeyTexts == SeqsUpTo({"a", "|"}, MaxKeyLen) \cup {<<LoneSurrogate>>}

CustomRequests ==
    [text : KeyTexts,
     user_prompt : KeyTexts \ {<<>>},
     system_prompt : {None, Some(<<>>), Some(<<"a">>)}]

\* hashlib.md5(s).hexdigest()[:16], taken to be free of collisions
Md5Hex16(q) == <<"md5[:16]">> \o q

\* system_prompt or ''
OrEmpty(opt) == IF opt.found THEN opt.value ELSE <<>>

Encodable(q) == \A i \in 1..Len(q) : q[i] # LoneSurrogate

\* str(len(s))
LenStr(q) == <<"len", Len(q)>>

GetCacheKeyForCustom(text, user_prompt, system_prompt) ==
    LET combined == text \o <<"|">> \o user_prompt \o <<"|">> \o OrEmpty(system_prompt)
    IN IF Encodable(combined)
       THEN <<"ai_process_custom_">> \o Md5Hex16(combined)
       ELSE <<"ai_process_custom_">> \o LenStr(text) \o <<"_">> \o LenStr(user_prompt)

DerivedIdle == [pc |-> "idle", a |-> None, b |-> None, key_a |-> <<>>, key_b |-> <<>>]

\* the keys of two requests
DeriveKeys(a, b) ==
    /\ derived.pc = "idle"
    /\ derived' = [pc |-> "done", a |-> a, b |-> b,
                   key_a |-> GetCacheKeyForCustom(a.text, a.user_prompt, a.system_prompt),
                   key_b |-> GetCacheKeyForCustom(b.text, b.user_prompt, b.system_prompt)]
    /\ UNCHANGED <<cacheVars, last, reqVars, runVars, flow, permuted, stepVars>>

NextKey == \E a \in CustomRequests, b \in CustomRequests : DeriveKeys(a, b)

(***************************************************************************)
(* Transcriber.transcribe step by step, an API key being configured: its   *)
(* progress reports, the exceptions of the progress callback, the          *)
(* cancellation requested by the application (main.py _cancel_processing), *)
(* and the I/O errors of the durable cache tier                            *)
(***************************************************************************)
\* the number of calls of transcribe in a behaviour
FlowMaxRuns == 2
\* the latest call of progress_callback at which it starts to raise (it
\* raises at one call of a run, or at that call and the next)
MaxCallbackCall == 10

\* a fraction handed to progress_callback, as numerator and denominator
Frac(n, d) == <<n, d>>

FracLeq(a, b) == a[1] * b[2] <= b[1] * a[2]

CacheGetFaultyRaising(mem, dsk, key, t, fault, removed) ==
    LET ck == CacheKeyHash(key)
        plain == CacheGetTiers(mem, dsk, key, t)
    IN [result |-> None, mem |-> plain.mem, dsk |-> dsk,
        io_error |-> ck \in DOMAIN dsk, raised |-> ck \in DOMAIN dsk]

\* Cache.get with the cache enabled, the read of the cache file failing
\* when fault holds (open or json.load raises): the error is caught, the
\* removal of the file is attempted (removed: it worked), None is returned
CacheGetFaulty(mem, dsk, key, t, fault, removed) ==
    LET ck == CacheKeyHash(key)
        memHit == ck \in DOMAIN mem /\ ~IsExpired(mem[ck].timestamp, t)
        mem1 == IF ck \in DOMAIN mem /\ ~memHit THEN DictDel(mem, ck) ELSE mem
        plain == CacheGetTiers(mem, dsk, key, t)
    IN IF memHit \/ ck \notin DOMAIN dsk \/ ~fault
       THEN [result |-> plain.result, mem |-> plain.mem, dsk |-> plain.dsk,
             io_error |-> FALSE, raised |-> FALSE]
       ELSE [result |-> None, mem |-> mem1,
             dsk |-> IF removed THEN DictDel(dsk, ck) ELSE dsk,
             io_error |-> TRUE, raised |-> FALSE]

\* Cache.set with the cache enabled, the write of the cache file failing
\* when fault holds: the in-process entry is written first, the error is
\* caught, the file is not written
CacheSetFaulty(mem, dsk, key, value, t, fault) ==
    LET plain == CacheSetTiers(mem, dsk, key, value, FALSE, t)
    IN IF ~fault
       THEN [mem |-> plain.mem, dsk |-> plain.dsk,
             io_error |-> FALSE, raised |-> FALSE]
       ELSE [mem |-> plain.mem, dsk |-> dsk,
             io_error |-> TRUE, raised |-> FALSE]

\* the inputs of the step-by-step runs
FlowJobs ==
    {Job("audio", "short", TRUE, 30, 1, <<>>, "zh"),
     Job("audio", "long", TRUE, 150, 5, <<>>, "zh"),
     Job("audio", "big", TRUE, 30, 90, <<>>, "zh"),
     Job("audio", "gone", FALSE, 0, 0, <<>>, "zh")}

\* what is said in each piece of an audio, so that a transcript tells which
\* piece it is the transcript of
Words == <<"zero", "one", "two", "three", "four">>

SpokenIn(segment) == <<Words[segment[3] + 1]>>

FlowIdle ==
    [pc |-> "idle", no |-> 0, job |-> Job("none", "none", FALSE, 0, 0, <<>>, "none"),
     \* progress_callback: given or not, the calls made, those that raise
     \* (bad_from = 0: none)
     cb |-> FALSE, calls |-> 0, bad_from |-> 0, bad_twice |-> FALSE,
     progress |-> <<>>, raised |-> FALSE, caught |-> 0,
     \* the cache lookup
     looked_up |-> FALSE, hit |-> FALSE, before |-> None,
     get_error |-> FALSE, set_error |-> FALSE, cache_raised |-> FALSE,
     \* the segments and the loop over them
     single |-> FALSE, segs |-> <<>>, i |-> 0, called |-> <<>>, outcomes |-> <<>>,
     sent |-> 0, temp_files |-> {}, deleted |-> {},
     \* the cancellation
     cancelled |-> FALSE, calls_after_cancel |-> 0, sent_after_cancel |-> 0,
     merged |-> FALSE, writes |-> 0, escaped |-> FALSE,
     result |-> Result(FALSE, <<>>, NoError)]

\* progress_callback(fraction, message), when a callback is given
Cb(f, fraction) ==
    IF ~f.cb THEN f
    ELSE LET k == f.calls + 1
         IN [f EXCEPT !.calls = k,
                      !.progress = Append(@, fraction),
                      !.raised = (k = f.bad_from)
                                    \/ (f.bad_twice /\ k = f.bad_from + 1)]

RECURSIVE Report(_, _)
\* progress_callback called with each of fractions, up to the call that raises
Report(f, fractions) ==
    IF fractions = <<>> \/ f.raised THEN f
    ELSE Report(Cb(f, Head(fractions)), Tail(fractions))

\* return success, text, error
FlowDone(f, res) == [f EXCEPT !.pc = "done", !.result = res, !.raised = FALSE]

\* transcribe's except clause: the error is reported and returned; an
\* exception of the report itself leaves transcribe
FlowExcept(f) ==
    LET f1 == Cb([f EXCEPT !.raised = FALSE, !.caught = @ + 1], Frac(0, 1))
    IN IF f1.raised
       THEN [FlowDone(f1, Result(FALSE, <<>>, Msg("exception", 0)))
                EXCEPT !.escaped = TRUE]
       ELSE FlowDone(f1, Result(FALSE, <<>>, Msg("transcribe_error", 0)))

\* the end of transcribe after a failed transcription: nothing is cached,
\* the failure is reported and returned
FlowFailed(f, res) ==
    LET f1 == Cb([f EXCEPT !.raised = FALSE], Frac(0, 1))
    IN IF f1.raised THEN FlowExcept(f1) ELSE FlowDone(f1, res)


\* SegmentProcessor.cleanup_temp_files
FlowCleanup(f) ==
    [f EXCEPT !.deleted = @ \cup f.temp_files, !.temp_files = {}]

\* d.get(k)
EntryOf(tier, key) ==
    IF CacheKeyHash(key) \in DOMAIN tier THEN Some(tier[CacheKeyHash(key)]) ELSE None

\* transcribe from its entry to the split or the single call: the first
\* report, the check of the file, the cache lookup, the choice of the path
FlowStart(job, cb, bad_from, bad_twice, fault, removed) ==
    /\ flow.pc = "idle"
    /\ flow.no < FlowMaxRuns
    /\ bad_twice => bad_from > 0
    /\ bad_from > 0 => cb
    /\ LET f0 == [FlowIdle EXCEPT !.no = flow.no + 1, !.job = job, !.cb = cb,
                                  !.bad_from = bad_from, !.bad_twice = bad_twice,
                                  !.before = [mem |-> EntryOf(memory_cache, RunKey(job)),
                                              dsk |-> EntryOf(disk_cache, RunKey(job))]]
           f1 == Cb(f0, Frac(0, 1))
           got == IF enabled
                  THEN CacheGetFaulty(memory_cache, disk_cache, RunKey(job), now,
                                      fault, removed)
                  ELSE [result |-> None, mem |-> memory_cache, dsk |-> disk_cache,
                        io_error |-> FALSE, raised |-> FALSE]
           f2 == [f1 EXCEPT !.looked_up = TRUE, !.get_error = got.io_error,
                            !.cache_raised = got.raised]
           \* _get_cached_transcription: a string that is not empty, else None
           cached == IF got.raised THEN None ELSE got.result
           f3 == Report(f2, <<Frac(1, 10), Frac(2, 10), Frac(3, 10)>>)
       IN IF f1.raised \/ ~job.exists
          THEN /\ ~fault /\ ~removed
               /\ flow' = IF f1.raised THEN FlowExcept(f1)
                          ELSE FlowDone(f1, Result(FALSE, <<>>, Msg("invalid_input", 0)))
               /\ UNCHANGED <<memory_cache, disk_cache>>
          ELSE /\ fault => got.io_error
               /\ removed => got.io_error
               /\ memory_cache' = got.mem
               /\ disk_cache' = got.dsk
               /\ flow' =
                    IF cached.found /\ cached.value # <<>>
                    THEN LET f4 == Cb([f2 EXCEPT !.hit = TRUE], Frac(1, 1))
                         IN IF f4.raised THEN FlowExcept(f4)
                            ELSE FlowDone(f4, Result(TRUE, cached.value, NoError))
                    ELSE IF f3.raised
                    THEN IF f3.calls <= f2.calls + 2
                         \* the reports of transcribe itself
                         THEN FlowExcept(f3)
                         \* the first report of _transcribe_single_file or of
                         \* _transcribe_with_segments, caught there
                         ELSE FlowFailed(f3, Result(FALSE, <<>>,
                                 Msg(IF ShouldSplit(job) THEN "segments_error"
                                     ELSE "single_error", 0)))
                    ELSE IF ShouldSplit(job)
                    THEN [f3 EXCEPT !.pc = "splitting"]
                    ELSE [f3 EXCEPT !.pc = "calling", !.single = TRUE,
                                    !.segs = <<Whole(job)>>]
    /\ UNCHANGED <<now, enabled, last, reqVars, runVars, permuted, derived, stepVars>>

RECURSIVE ReportSwallowed(_, _)
\* progress_callback called with each of fractions inside a try whose except
\* clause only logs
ReportSwallowed(f, fractions) ==
    IF fractions = <<>> THEN f
    ELSE ReportSwallowed([Cb(f, Head(fractions)) EXCEPT !.raised = FALSE],
                         Tail(fractions))

\* split_audio called by _transcribe_with_segments, then the report that the
\* calls begin; the audio library has made all the pieces or, not being
\* there, none (produced is their number)
FlowSplit(produced) ==
    /\ flow.pc = "splitting"
    /\ produced \in {0, NumSegments(flow.job)}
    /\ LET n == NumSegments(flow.job)
           long == flow.job.duration > chunk_duration
           f1 == IF long THEN Cb(flow, Frac(0, 1)) ELSE flow
           f2 == ReportSwallowed(f1, [k \in 1..produced |-> Frac(8 * k, 10 * n)])
           segments == SplitAudio(flow.job, produced)
           f3 == IF long
                 THEN [f2 EXCEPT !.temp_files = @ \cup {segments[k] : k \in 1..Len(segments)}]
                 ELSE f2
           f4 == Cb(f3, Frac(4, 10))
       IN /\ ~long => produced = 0
          /\ flow' =
                IF f1.raised
                THEN FlowFailed(f1, Result(FALSE, <<>>, Msg("split_error", 0)))
                ELSE IF segments = <<>>
                THEN FlowFailed(f2, Result(FALSE, <<>>, Msg("split_failed", 0)))
                ELSE IF f4.raised
                THEN FlowFailed(FlowCleanup(f4),
                                Result(FALSE, <<>>, Msg("segments_error", 0)))
                ELSE [f4 EXCEPT !.pc = "calling", !.segs = segments]
    /\ UNCHANGED <<cacheVars, last, reqVars, runVars, permuted, derived, stepVars>>

\* main.py _cancel_processing while transcribe runs in its thread: the flag
\* is set and transcriber.cleanup() deletes the registered segment files
FlowCancel ==
    /\ flow.pc \in {"splitting", "calling"}
    /\ ~flow.cancelled
    /\ flow' = [FlowCleanup(flow) EXCEPT !.cancelled = TRUE]
    /\ UNCHANGED <<cacheVars, last, reqVars, runVars, permuted, derived, stepVars>>

\* the service's answers to a segment request
FlowAnswers(segment) ==
    [ok |-> HttpResponse(200, TRUE, "text", SpokenIn(segment)),
     fail |-> HttpResponse(404, FALSE, "absent", <<"e">>)]

\* except Exception as e: segment_results.append((False, None, str(e)))
SegRaisedDropped(f) == [f EXCEPT !.raised = FALSE]

\* except Exception as e: segment_results.append((False, None, str(e)))
SegRaised(f) ==
    [f EXCEPT !.raised = FALSE,
              !.outcomes = Append(@, Outcome(FALSE, <<>>, Msg("exception", 0)))]

\* one turn of the loop over the segments (the only turn of a single
\* transcription): the report, then client.transcribe_audio on the segment
FlowSegCall(answer) ==
    /\ flow.pc = "calling"
    /\ flow.i < Len(flow.segs)
    /\ LET n == Len(flow.segs)
           segment == flow.segs[flow.i + 1]
           f1 == IF flow.single THEN flow
                 ELSE Cb(flow, Frac(4 * n + 5 * flow.i, 10 * n))
           f2 == [f1 EXCEPT !.i = @ + 1, !.called = Append(@, segment)]
           \* transcribe_audio: if not os.path.exists(audio_path)
           no_file == segment \in flow.deleted
           r == MakeRequest(ReqCalled(DefaultMaxRetries, DefaultRetryDelay),
                            <<FlowAnswers(segment)[answer]>>)
           after == IF flow.cancelled THEN 1 ELSE 0
       IN IF f1.raised
          THEN /\ answer = "none"
               /\ flow' = SegRaised(f2)
          ELSE IF no_file
          THEN /\ answer = "none"
               /\ flow' = [f2 EXCEPT
                            !.outcomes = Append(@, Outcome(FALSE, <<>>, Msg("no_file", 0))),
                            !.calls_after_cancel = @ + after]
          ELSE /\ answer \in {"ok", "fail"}
               /\ flow' = [f2 EXCEPT
                            !.outcomes = Append(@, ClientOutcome("siliconflow", r.result)),
                            !.sent = @ + Len(r.hist),
                            !.calls_after_cancel = @ + after,
                            !.sent_after_cancel = @ + after * Len(r.hist)]
    /\ UNCHANGED <<cacheVars, last, reqVars, runVars, permuted, derived, stepVars>>

\* the end of the run: the last report of the transcription, the merge and
\* the cleanup of a segmented one, the cache write, the final report
FlowFinish(fault) ==
    /\ flow.pc = "calling"
    /\ flow.i = Len(flow.segs)
    /\ LET o == flow.outcomes[1]
           f1 == IF flow.single
                 THEN Cb(flow, IF o.success THEN Frac(9, 10) ELSE Frac(3, 10))
                 ELSE FlowCleanup(Cb(flow, Frac(9, 10)))
           m == MergeTranscripts(flow.outcomes)
           res == IF f1.raised
                  THEN Result(FALSE, <<>>,
                              Msg(IF flow.single THEN "single_error"
                                  ELSE "segments_error", 0))
                  ELSE IF flow.single THEN Result(o.success, o.text, o.error)
                  ELSE Result(m.success, m.text, m.error)
           f2 == [f1 EXCEPT !.raised = FALSE,
                            !.merged = ~flow.single /\ ~f1.raised]
           write == res.success /\ res.text # <<>> /\ enabled
           set == CacheSetFaulty(memory_cache, disk_cache, RunKey(flow.job),
                                 res.text, now, fault)
           f3 == IF write
                 THEN [f2 EXCEPT !.writes = @ + 1, !.set_error = set.io_error,
                                 !.cache_raised = @ \/ set.raised]
                 ELSE f2
           f4 == Cb(f3, IF res.success THEN Frac(1, 1) ELSE Frac(0, 1))
       IN /\ fault => write
          /\ memory_cache' = IF write THEN set.mem ELSE memory_cache
          /\ disk_cache' = IF write THEN set.dsk ELSE disk_cache
          /\ flow' = IF f4.raised THEN FlowExcept(f4) ELSE FlowDone(f4, res)
    /\ UNCHANGED <<now, enabled, last, reqVars, runVars, permuted, derived, stepVars>>

\* the caller has taken the result
FlowReturn ==
    /\ flow.pc = "done"
    /\ flow' = [FlowIdle EXCEPT !.no = flow.no]
    /\ UNCHANGED <<cacheVars, last, reqVars, runVars, permuted, derived, stepVars>>

\* between two runs the application is started again: Cache.__init__
FlowRestart ==
    /\ flow.pc = "idle"
    /\ flow.no > 0
    /\ memory_cache # EmptyDict
    /\ memory_cache' = EmptyDict
    /\ disk_cache' = IF enabled THEN CleanupExpired(disk_cache, now) ELSE disk_cache
    /\ UNCHANGED <<now, enabled, last, reqVars, runVars, auxVars>>

NextFlow ==
    \/ \E job \in FlowJobs, cb \in BOOLEAN,
          bad_from \in 0..MaxCallbackCall, bad_twice \in BOOLEAN,
          fault \in BOOLEAN, removed \in BOOLEAN :
            FlowStart(job, cb, bad_from, bad_twice, fault, removed)
    \/ \E produced \in 0..3 : FlowSplit(produced)
    \/ FlowCancel
    \/ \E answer \in {"ok", "fail", "none"} : FlowSegCall(answer)
    \/ \E fault \in BOOLEAN : FlowFinish(fault)
    \/ FlowReturn
    \/ FlowRestart

(***************************************************************************)
(* APIUtils.chunk_text step by step.  A text is given by its length and    *)
(* the positions (from 0) of its sentence terminators, a chunk by the      *)
(* slice text[from:to] it is.  The 5,000-character text of the long        *)
(* scenario is read as the scan reaches it.                                *)
(***************************************************************************)
\* the longest text given character by character
MaxTextLen == 8
\* the largest max_length chunk_text is called with on such a text
MaxChunkLen == 5

\* the indices of a slice text[a:b] of a text of n characters
PyClamp(x, n) ==
    IF x < 0 THEN (IF x + n < 0 THEN 0 ELSE x + n)
    ELSE IF x > n THEN n ELSE x

PySlice(a, b, n) ==
    IF PyClamp(a, n) >= PyClamp(b, n) THEN <<PyClamp(a, n), PyClamp(a, n)>>
    ELSE <<PyClamp(a, n), PyClamp(b, n)>>

\* the position text[i] reads; outside 0..n-1 it raises IndexError
PyIndex(i, n) == IF i < 0 THEN i + n ELSE i

ChunkerIdle ==
    [pc |-> "idle", len |-> 0, max_length |-> 0, overlap |-> 0,
     \* the text: given as a whole, or known where the scans have read it
     \* (scanned: the ranges of indices read without finding a terminator)
     given |-> FALSE, terms |-> {}, scanned |-> {},
     start |-> 0, starts |-> <<>>, chunks |-> <<>>]

\* text[i] for some i in lo..hi reads position p
Reads(lo, hi, p, n) ==
    \/ p >= 0 /\ lo <= p /\ p <= hi
    \/ p - n < 0 /\ lo <= p - n /\ p - n <= hi

\* the character at position p is known not to be a terminator
IsPlain(c, p) ==
    IF c.given THEN p \notin c.terms
    ELSE \E r \in c.scanned : Reads(r[1], r[2], p, c.len)

\* chunk_text up to its loop
ChunkCall(len, max_length, overlap, given, terminators) ==
    /\ chunker.pc = "idle"
    /\ chunker' =
          [ChunkerIdle EXCEPT
              !.len = len, !.max_length = max_length, !.overlap = overlap,
              !.given = given, !.terms = terminators,
              !.pc = IF len <= max_length THEN "returned" ELSE "looping",
              !.starts = IF len <= max_length THEN <<0>> ELSE <<>>,
              !.chunks = IF len <= max_length THEN <<<<0, len>>>> ELSE <<>>]
    /\ UNCHANGED <<cacheVars, last, reqVars, runVars, flow, permuted, derived,
                   split, conc, lateVars>>

ChunkEndLong(c) == c.start + c.max_length + 3 * c.overlap

\* end = start + max_length
ChunkEnd(c) == c.start + c.max_length

\* range(end, start + max_length - overlap, -1)
ScanRange(c) == (c.start + c.max_length - c.overlap + 1)..ChunkEnd(c)

NextStartAtCut(c, cut) == cut

\* start = end - overlap
NextStart(c, cut) == cut - c.overlap

\* what the scan of one turn can find: nothing (<<>>) or its first terminator
ScanFinds(c) == {<<>>} \cup {<<i>> : i \in ScanRange(c)}

\* one turn of the while loop; found is what the scan finds
ChunkStep(found) ==
    /\ chunker.pc = "looping"
    /\ LET c == chunker
           n == c.len
           end == ChunkEnd(c)
           \* the indices read without finding a terminator: lo..end
           lo == IF found = <<>> THEN c.start + c.max_length - c.overlap + 1
                 ELSE found[1] + 1
           \* text[i] with i < -len raises IndexError
           raises == lo <= end /\ PyIndex(lo, n) < 0
           cut == IF found = <<>> THEN end ELSE found[1] + 1
           next == NextStart(c, cut)
       IN IF c.start >= n
          THEN /\ found = <<>>
               /\ chunker' = [c EXCEPT !.pc = "returned"]
          ELSE IF end >= n
          THEN /\ found = <<>>
               /\ chunker' = [c EXCEPT !.pc = "returned",
                                       !.starts = Append(@, c.start),
                                       !.chunks = Append(@, PySlice(c.start, n, n))]
          ELSE /\ found \in ScanFinds(c)
               /\ \A t \in c.terms : ~Reads(lo, end, t, n)
               /\ found # <<>> =>
                     /\ PyIndex(found[1], n) >= 0
                     /\ ~Reads(lo, end, PyIndex(found[1], n), n)
                     /\ IF c.given THEN PyIndex(found[1], n) \in c.terms
                        ELSE ~IsPlain(c, PyIndex(found[1], n))
               /\ chunker' =
                     IF raises
                     THEN [c EXCEPT !.pc = "raised"]
                     ELSE [c EXCEPT
                             !.scanned = IF c.given \/ lo > end THEN @
                                         ELSE @ \cup {<<lo, end>>},
                             !.terms = IF found = <<>> THEN @
                                       ELSE @ \cup {PyIndex(found[1], n)},
                             !.starts = Append(@, c.start),
                             !.chunks = Append(@, PySlice(c.start, cut, n)),
                             !.start = next,
                             \* a turn that starts where an earlier one started
                             \* repeats it for ever
                             !.pc = IF next = c.start
                                       \/ \E k \in 1..Len(c.starts) : c.starts[k] = next
                                    THEN "stuck" ELSE "looping"]
    /\ UNCHANGED <<cacheVars, last, reqVars, runVars, flow, permuted, derived,
                   split, conc, lateVars>>

NextChunk ==
    \/ /\ chunker.pc = "idle"
       /\ \E len \in 1..MaxTextLen, max_length \in 1..MaxChunkLen :
            \E overlap \in 0..(max_length - 1), terminators \in SUBSET (0..(len - 1)) :
               ChunkCall(len, max_length, overlap, TRUE, terminators)
    \/ ChunkCall(5000, 2000, 200, FALSE, {})
    \/ \E found \in ScanFinds(chunker) : ChunkStep(found)

(***************************************************************************)
(* SegmentProcessor.split_audio with the outcomes of its strategies, and   *)
(* what Transcriber._transcribe_with_segments makes of its return value    *)
(***************************************************************************)
\* the most pieces the framework or the library split is seen to produce
MaxPieces == 3

\* the audio files handed to split_audio: their true duration and size
SplitJobs ==
    {Job("audio", "clip", e, d, m, <<>>, "zh") :
        e \in BOOLEAN, d \in {30, 130, 150}, m \in {1, 3, 30, 90}}

\* _get_audio_duration: the duration from the framework or the library when
\* one of them reads the file (measured_by), else the estimate of one minute
\* per megabyte; None when no method gives a duration
GetAudioDuration(job, measured_by) ==
    IF measured_by \in {"ios", "python"}
    THEN Some([duration |-> job.duration, method |-> measured_by])
    ELSE Some([duration |-> job.size_mb * 60, method |-> "estimated"])

\* _split_by_file_size, copied of its copies having succeeded: a pair
\* (success, segments)
SplitByFileSizeCopying(job, copied) ==
    IF job.size_mb <= max_chunk_size_mb THEN <<TRUE, <<Whole(job)>>>>
    ELSE <<TRUE, [i \in 1..copied |-> <<job.hash, "copy", i>>]>>

\* _perform_audio_split: the framework split, else the library split, else
\* the second item of _split_by_file_size
PerformAudioSplit(job, ios_made, py_made, copied) ==
    IF ios_made > 0 THEN [i \in 1..ios_made |-> <<job.hash, "part", i>>]
    ELSE IF py_made > 0 THEN [i \in 1..py_made |-> <<job.hash, "part", i>>]
    ELSE SplitByFileSizeCopying(job, copied)[2]

\* the part of the audio that the segment of index i (from 0) holds, as
\* <<from, to>> in units of 1/n ms, n being num_segments and duration the
\* duration split_audio worked with: the framework cuts at i *
\* segment_duration, the library at i * int(segment_duration * 1000) ms, and
\* the size-based strategy hands on the file or copies of it
SpanOf(job, strategy, i, n, duration) ==
    LET length == job.duration * 1000
        segment_length_ms == (duration * 1000) \div n
        Min(a, b) == IF a <= b THEN a ELSE b
    IN IF strategy = "ios"
       THEN <<i * duration * 1000, Min((i + 1) * duration * 1000, n * length)>>
       ELSE IF strategy = "python"
       THEN <<n * i * segment_length_ms,
              n * Min((i + 1) * segment_length_ms, length)>>
       ELSE <<0, n * length>>

\* split_audio: the tuple it returns
SplitAudioReturn(job, measured_by, ios_made, py_made, copied) ==
    LET audio_info == GetAudioDuration(job, measured_by)
        segments == PerformAudioSplit(job, ios_made, py_made, copied)
    IN IF ~job.exists THEN <<FALSE, <<>>, Msg("invalid_input", 0)>>
       ELSE IF ~audio_info.found THEN SplitByFileSizeCopying(job, copied)
       ELSE IF audio_info.value.duration <= chunk_duration
       THEN <<TRUE, <<Whole(job)>>, NoError>>
       ELSE IF segments # <<>> THEN <<TRUE, segments, NoError>>
       ELSE <<FALSE, <<>>, Msg("split_failed", 0)>>

\* success, segments, error = split_audio(...) and the check that follows
\* in _transcribe_with_segments: the segments it goes on to transcribe, or
\* the failure it returns (an unpacking error is caught by its except clause)
ConsumeSplit(returned) ==
    IF Len(returned) # 3
    THEN [raised |-> TRUE, segments |-> <<>>,
          result |-> Result(FALSE, <<>>, Msg("segments_error", 0))]
    ELSE IF ~returned[1] \/ returned[2] = <<>>
    THEN [raised |-> FALSE, segments |-> <<>>,
          result |-> Result(FALSE, <<>>,
                            IF returned[3] = NoError THEN Msg("split_failed", 0)
                            ELSE returned[3])]
    ELSE [raised |-> FALSE, segments |-> returned[2],
          result |-> Result(FALSE, <<>>, NoError)]

SplitIdle ==
    [pc |-> "idle", job |-> Job("none", "none", FALSE, 0, 0, <<>>, "none"),
     measured_by |-> "none", ios_made |-> 0, py_made |-> 0, copied |-> 0,
     num_segments |-> 0, returned |-> <<>>,
     taken |-> [raised |-> FALSE, segments |-> <<>>,
                result |-> Result(FALSE, <<>>, NoError)]]

\* _transcribe_with_segments from its call of split_audio to the start of
\* its loop
SplitCall(job, measured_by, ios_made, py_made, copied) ==
    /\ split.pc = "idle"
    /\ LET info == GetAudioDuration(job, measured_by).value
           n == Ceil(info.duration, chunk_duration)
           tried == job.exists /\ info.duration > chunk_duration
           copying == /\ tried /\ ios_made = 0 /\ py_made = 0
                      /\ job.size_mb > max_chunk_size_mb
           returned == SplitAudioReturn(job, measured_by, ios_made, py_made, copied)
       IN \* the strategies that are not reached produce nothing
          /\ ios_made > 0 => tried /\ ios_made <= n
          /\ py_made > 0 => tried /\ ios_made = 0 /\ py_made <= n
          \* a file the libraries cannot read they cannot split
          /\ measured_by = "none" => ios_made = 0 /\ py_made = 0
          /\ copied > 0 => copying /\ copied <= Ceil(job.size_mb, max_chunk_size_mb)
          /\ split' = [pc |-> "done", job |-> job, measured_by |-> measured_by,
                       ios_made |-> ios_made, py_made |-> py_made,
                       copied |-> copied,
                       num_segments |-> IF tried THEN n ELSE 0,
                       returned |-> returned, taken |-> ConsumeSplit(returned)]
    /\ UNCHANGED <<cacheVars, last, reqVars, runVars, flow, permuted, derived,
                   chunker, conc, lateVars>>

\* the next file
SplitAgain ==
    /\ split.pc = "done"
    /\ split' = SplitIdle
    /\ UNCHANGED <<cacheVars, last, reqVars, runVars, flow, permuted, derived,
                   chunker, conc, lateVars>>

NextSplit ==
    \/ /\ split.pc = "idle"
       /\ \E job \in SplitJobs, measured_by \in {"ios", "python", "none"} :
            \E ios_made \in 0..MaxPieces, py_made \in 0..MaxPieces,
               copied \in 0..Ceil(job.size_mb, max_chunk_size_mb) :
                SplitCall(job, measured_by, ios_made, py_made, copied)
    \/ SplitAgain

(***************************************************************************)
(* The cache used by two threads at once.  Every operation of Cache is     *)
(* taken statement by statement; the threads share self.memory_cache and   *)
(* the cache files, and nothing in utils/cache.py locks either of them.    *)
(* A cache file is empty between open(path, 'w') and the write of the      *)
(* JSON text, and torn when a shorter text was written over a longer one.  *)
(***************************************************************************)
\* the operations begun in one behaviour
MaxConcOps == 3

Threads == {"t1", "t2"}

\* the values of different lengths the threads write
ConcValues == {<<"a">>, <<"b", "b">>}

NoEntry == [key |-> <<>>, value |-> <<>>, timestamp |-> 0]

\* the states of a cache file
CompleteFile(e) == [state |-> "entry", entry |-> e, size |-> Len(e.value)]

EmptyFile == [state |-> "empty", entry |-> NoEntry, size |-> 0]

TornFile(n) == [state |-> "torn", entry |-> NoEntry, size |-> n]

\* f.write of the JSON text of e at offset 0 of a file opened with 'w' that
\* another writer may have filled since
Overwrite(file, e) ==
    IF file.size <= Len(e.value) THEN CompleteFile(e) ELSE TornFile(file.size)

ThreadIdle ==
    [op |-> "none", pc |-> "idle", key |-> <<>>, data |-> NoEntry,
     \* the file a set has open has been removed under it
     orphan |-> FALSE, result |-> None]

ConcIdle ==
    [threads |-> [t \in Threads |-> ThreadIdle], started |-> 0, kinds |-> {},
     wrote |-> [k \in CacheKeys |-> {}], removed_open |-> FALSE]

\* the state of thread t set to rec
ThreadsWith(t, rec) == [conc.threads EXCEPT ![t] = rec]

\* the file of ck has been removed: the sets that have it open write to a
\* file that has no name any more
Orphaned(threads, ck) ==
    [t \in Threads |->
        IF threads[t].op = "set" /\ threads[t].pc = "write"
              /\ CacheKeyHash(threads[t].key) = ck
        THEN [threads[t] EXCEPT !.orphan = TRUE] ELSE threads[t]]

HasOpenWriter(threads, ck) ==
    \E t \in Threads : /\ threads[t].op = "set" /\ threads[t].pc = "write"
                       /\ ~threads[t].orphan
                       /\ CacheKeyHash(threads[t].key) = ck

\* a thread calls get, set, delete or clear
ConcBegin(t, op, key, value) ==
    /\ conc.threads[t].pc = "idle"
    /\ conc.started < MaxConcOps
    /\ op \in {"get", "clear", "delete"} => value = <<"a">>
    /\ op = "clear" => key = <<"test_key">>
    /\ LET off == ~enabled /\ op \in {"get", "set"}
           rec == [ThreadIdle EXCEPT
                      !.op = op, !.key = key,
                      !.data = IF op = "set"
                               THEN [key |-> key, value |-> value, timestamp |-> now]
                               ELSE NoEntry,
                      !.pc = IF off THEN "done"
                             ELSE IF op = "set" THEN "memory"
                             ELSE IF op = "clear" THEN "clear_memory"
                             ELSE "check"]
       IN conc' = [conc EXCEPT
                      !.threads = ThreadsWith(t, rec),
                      !.started = @ + 1,
                      !.kinds = @ \cup {op},
                      !.wrote = IF op = "set" /\ ~off
                                THEN [@ EXCEPT ![key] = @ \cup {value}] ELSE @]
    /\ UNCHANGED <<cacheVars, last, reqVars, runVars, flow, permuted, derived,
                   chunker, split, lateVars>>

\* get and delete: if cache_key in self.memory_cache
MemoryCheck(t) ==
    /\ conc.threads[t].pc = "check"
    /\ LET th == conc.threads[t]
           held == CacheKeyHash(th.key) \in DOMAIN memory_cache
       IN conc' = [conc EXCEPT !.threads =
                     ThreadsWith(t, [th EXCEPT !.pc =
                        IF ~held THEN "file"
                        ELSE IF th.op = "get" THEN "read" ELSE "del"])]
    /\ UNCHANGED <<cacheVars, last, reqVars, runVars, flow, permuted, derived,
                   chunker, split, lateVars>>

\* get: cache_data = self.memory_cache[cache_key]
GetRead(t) ==
    /\ conc.threads[t].pc = "read"
    /\ LET th == conc.threads[t]
           ck == CacheKeyHash(th.key)
       IN conc' = [conc EXCEPT !.threads =
                     ThreadsWith(t,
                        IF ck \in DOMAIN memory_cache
                        THEN [th EXCEPT !.pc = "expiry", !.data = memory_cache[ck]]
                        ELSE [th EXCEPT !.pc = "raised"])]
    /\ UNCHANGED <<cacheVars, last, reqVars, runVars, flow, permuted, derived,
                   chunker, split, lateVars>>

\* get: the entry read is returned, or when it is expired
\* del self.memory_cache[cache_key]
GetExpiry(t) ==
    /\ conc.threads[t].pc = "expiry"
    /\ LET th == conc.threads[t]
           ck == CacheKeyHash(th.key)
       IN IF ~IsExpired(th.data.timestamp, now)
          THEN /\ conc' = [conc EXCEPT !.threads =
                             ThreadsWith(t, [th EXCEPT !.pc = "done",
                                                       !.result = Some(th.data.value)])]
               /\ UNCHANGED memory_cache
          ELSE IF ck \in DOMAIN memory_cache
          THEN /\ memory_cache' = DictDel(memory_cache, ck)
               /\ conc' = [conc EXCEPT !.threads =
                             ThreadsWith(t, [th EXCEPT !.pc = "file"])]
          ELSE /\ conc' = [conc EXCEPT !.threads =
                             ThreadsWith(t, [th EXCEPT !.pc = "raised"])]
               /\ UNCHANGED memory_cache
    /\ UNCHANGED <<now, enabled, disk_cache, last, reqVars, runVars, flow,
                   permuted, derived, chunker, split, lateVars>>

\* get: the file is looked for, opened and loaded; a live entry is put in
\* the in-process tier and returned, an expired file and a file that cannot
\* be parsed are removed
GetFile(t) ==
    /\ conc.threads[t].pc = "file" /\ conc.threads[t].op = "get"
    /\ LET th == conc.threads[t]
           ck == CacheKeyHash(th.key)
           file == disk_cache[ck]
           live == /\ file.state = "entry"
                   /\ ~IsExpired(file.entry.timestamp, now)
       IN IF ck \notin DOMAIN disk_cache
          THEN /\ conc' = [conc EXCEPT !.threads =
                             ThreadsWith(t, [th EXCEPT !.pc = "done"])]
               /\ UNCHANGED <<memory_cache, disk_cache>>
          ELSE IF live
          THEN /\ memory_cache' = DictPut(memory_cache, ck, file.entry)
               /\ conc' = [conc EXCEPT !.threads =
                             ThreadsWith(t, [th EXCEPT !.pc = "done",
                                                !.result = Some(file.entry.value)])]
               /\ UNCHANGED disk_cache
          ELSE /\ disk_cache' = DictDel(disk_cache, ck)
               /\ conc' = [conc EXCEPT
                             !.threads = [Orphaned(conc.threads, ck) EXCEPT
                                             ![t] = [th EXCEPT !.pc = "done"]],
                             !.removed_open = @ \/ HasOpenWriter(conc.threads, ck)]
               /\ UNCHANGED memory_cache
    /\ UNCHANGED <<now, enabled, last, reqVars, runVars, flow, permuted, derived,
                   chunker, split, lateVars>>

\* set: self.memory_cache[cache_key] = cache_data
SetMemory(t) ==
    /\ conc.threads[t].pc = "memory"
    /\ LET th == conc.threads[t]
       IN /\ memory_cache' = DictPut(memory_cache, CacheKeyHash(th.key), th.data)
          /\ conc' = [conc EXCEPT !.threads =
                        ThreadsWith(t, [th EXCEPT !.pc = "open"])]
    /\ UNCHANGED <<now, enabled, disk_cache, last, reqVars, runVars, flow,
                   permuted, derived, chunker, split, lateVars>>

\* set: open(cache_path, 'w') creates the file or empties it
SetOpen(t) ==
    /\ conc.threads[t].pc = "open"
    /\ LET th == conc.threads[t]
       IN /\ disk_cache' = DictPut(disk_cache, CacheKeyHash(th.key), EmptyFile)
          /\ conc' = [conc EXCEPT !.threads =
                        ThreadsWith(t, [th EXCEPT !.pc = "write"])]
    /\ UNCHANGED <<now, enabled, memory_cache, last, reqVars, runVars, flow,
                   permuted, derived, chunker, split, lateVars>>

\* set: json.dump and the end of the with block
SetWrite(t) ==
    /\ conc.threads[t].pc = "write"
    /\ LET th == conc.threads[t]
           ck == CacheKeyHash(th.key)
       IN /\ disk_cache' = IF th.orphan THEN disk_cache
                           ELSE DictPut(disk_cache, ck, Overwrite(disk_cache[ck], th.data))
          /\ conc' = [conc EXCEPT !.threads =
                        ThreadsWith(t, [th EXCEPT !.pc = "done",
                                                  !.result = Some(th.data.value)])]
    /\ UNCHANGED <<now, enabled, memory_cache, last, reqVars, runVars, flow,
                   permuted, derived, chunker, split, lateVars>>

\* delete: del self.memory_cache[cache_key]
DeleteMemory(t) ==
    /\ conc.threads[t].pc = "del"
    /\ LET th == conc.threads[t]
           ck == CacheKeyHash(th.key)
       IN IF ck \in DOMAIN memory_cache
          THEN /\ memory_cache' = DictDel(memory_cache, ck)
               /\ conc' = [conc EXCEPT !.threads =
                             ThreadsWith(t, [th EXCEPT !.pc = "file"])]
          ELSE /\ conc' = [conc EXCEPT !.threads =
                             ThreadsWith(t, [th EXCEPT !.pc = "raised"])]
               /\ UNCHANGED memory_cache
    /\ UNCHANGED <<now, enabled, disk_cache, last, reqVars, runVars, flow,
                   permuted, derived, chunker, split, lateVars>>

\* delete: the file is removed when it is there
DeleteFile(t) ==
    /\ conc.threads[t].pc = "file" /\ conc.threads[t].op = "delete"
    /\ LET th == conc.threads[t]
           ck == CacheKeyHash(th.key)
       IN /\ disk_cache' = DictDel(disk_cache, ck)
          /\ conc' = [conc EXCEPT
                        !.threads = [Orphaned(conc.threads, ck) EXCEPT
                                        ![t] = [th EXCEPT !.pc = "done"]]]
    /\ UNCHANGED <<now, enabled, memory_cache, last, reqVars, runVars, flow,
                   permuted, derived, chunker, split, lateVars>>

\* clear: self.memory_cache.clear()
ClearMemory(t) ==
    /\ conc.threads[t].pc = "clear_memory"
    /\ memory_cache' = EmptyDict
    /\ conc' = [conc EXCEPT !.threads =
                  ThreadsWith(t, [conc.threads[t] EXCEPT !.pc = "clear_files"])]
    /\ UNCHANGED <<now, enabled, disk_cache, last, reqVars, runVars, flow,
                   permuted, derived, chunker, split, lateVars>>

RECURSIVE OrphanedAll(_, _)
OrphanedAll(threads, cks) ==
    IF cks = {} THEN threads
    ELSE LET ck == CHOOSE x \in cks : TRUE
         IN OrphanedAll(Orphaned(threads, ck), cks \ {ck})

\* clear: every cache file is removed
ClearFiles(t) ==
    /\ conc.threads[t].pc = "clear_files"
    /\ disk_cache' = EmptyDict
    /\ conc' = [conc EXCEPT
                  !.threads = [OrphanedAll(conc.threads, DOMAIN disk_cache) EXCEPT
                                  ![t] = [conc.threads[t] EXCEPT !.pc = "done"]]]
    /\ UNCHANGED <<now, enabled, memory_cache, last, reqVars, runVars, flow,
                   permuted, derived, chunker, split, lateVars>>

\* the caller has the result of its call and may make another
ConcReturn(t) ==
    /\ conc.threads[t].pc = "done"
    /\ conc' = [conc EXCEPT !.threads = ThreadsWith(t, ThreadIdle)]
    /\ UNCHANGED <<cacheVars, last, reqVars, runVars, flow, permuted, derived,
                   chunker, split, lateVars>>

NextConc ==
    \/ \E t \in Threads, op \in {"get", "set", "delete", "clear"},
          key \in CacheKeys, value \in ConcValues : ConcBegin(t, op, key, value)
    \/ \E t \in Threads : MemoryCheck(t)
    \/ \E t \in Threads : GetRead(t)
    \/ \E t \in Threads : GetExpiry(t)
    \/ \E t \in Threads : GetFile(t)
    \/ \E t \in Threads : SetMemory(t)
    \/ \E t \in Threads : SetOpen(t)
    \/ \E t \in Threads : SetWrite(t)
    \/ \E t \in Threads : DeleteMemory(t)
    \/ \E t \in Threads : DeleteFile(t)
    \/ \E t \in Threads : ClearMemory(t)
    \/ \E t \in Threads : ClearFiles(t)
    \/ \E t \in Threads : ConcReturn(t)
    \/ Tick

(***************************************************************************)
(* TextProcessor.process_with_template on templates whose prompt the user  *)
(* edits between runs (Config.update_custom_prompt)                        *)
(***************************************************************************)
\* the custom templates and the prompts the user gives them
TemplateIds == {"c1", "c2"}

\* what the service makes of a text under a prompt
Processed(prompt, body) == prompt \o body

TemplIdle ==
    [pc |-> "idle", prompts |-> [t \in TemplateIds |-> <<"p">>],
     job |-> Job("none", "none", FALSE, 0, 0, <<>>, "none"), hit |-> FALSE,
     sent |-> 0, result |-> Result(FALSE, <<>>, NoError)]

\* config.update_custom_prompt(prompt_id, {'user_prompt': prompt})
UpdateCustomPrompt(prompt_id, prompt) ==
    /\ templ.pc = "idle"
    /\ prompt_id \in DOMAIN templ.prompts
    /\ templ.prompts[prompt_id] # prompt
    /\ templ' = [templ EXCEPT !.prompts[prompt_id] = prompt]
    /\ UNCHANGED <<cacheVars, last, reqVars, runVars, flow, permuted, derived,
                   chunker, split, conc, upload>>

\* process_with_template(text, template_id) from its entry to its return,
\* the text being short enough for one request
ProcessWithTemplate(job, has_key, answer) ==
    /\ templ.pc = "idle"
    /\ LET t0 == [templ EXCEPT !.job = job, !.hit = FALSE, !.sent = 0]
           done(t, res) == [t EXCEPT !.pc = "done", !.result = res]
           got == IF enabled
                  THEN CacheGetTiers(memory_cache, disk_cache, RunKey(job), now)
                  ELSE [result |-> None, mem |-> memory_cache, dsk |-> disk_cache]
           prompt == templ.prompts[job.spec]
           resp == IF answer = "ok"
                   THEN HttpResponse(200, TRUE, "choices_message",
                                     Processed(prompt, job.body))
                   ELSE HttpResponse(404, FALSE, "absent", <<"e">>)
           r == MakeRequest(ReqCalled(DefaultMaxRetries, DefaultRetryDelay), <<resp>>)
           o == ClientOutcome("deepseek", r.result)
           write == o.success /\ o.text # <<>> /\ enabled
           set == CacheSetTiers(got.mem, got.dsk, RunKey(job), o.text, FALSE, now)
       IN IF job.spec \notin DOMAIN templ.prompts
          THEN /\ has_key /\ answer = "none"
               /\ templ' = done(t0, Result(FALSE, <<>>, Msg("invalid_input", 0)))
               /\ UNCHANGED <<memory_cache, disk_cache>>
          ELSE IF got.result.found /\ got.result.value # <<>>
          THEN /\ answer = "none"
               /\ templ' = done([t0 EXCEPT !.hit = TRUE],
                                Result(TRUE, got.result.value, NoError))
               /\ memory_cache' = got.mem
               /\ disk_cache' = got.dsk
          ELSE IF ~has_key
          THEN /\ answer = "none"
               /\ templ' = done(t0, Result(FALSE, <<>>, Msg("no_api_key", 0)))
               /\ memory_cache' = got.mem
               /\ disk_cache' = got.dsk
          ELSE /\ answer \in {"ok", "fail"}
               /\ templ' = done([t0 EXCEPT !.sent = Len(r.hist)],
                                Result(o.success, o.text, o.error))
               /\ memory_cache' = IF write THEN set.mem ELSE got.mem
               /\ disk_cache' = IF write THEN set.dsk ELSE got.dsk
    /\ UNCHANGED <<now, enabled, last, reqVars, runVars, flow, permuted, derived,
                   chunker, split, conc, upload>>

\* the caller has taken the result
TemplReturn ==
    /\ templ.pc = "done"
    /\ templ' = [templ EXCEPT !.pc = "idle"]
    /\ UNCHANGED <<cacheVars, last, reqVars, runVars, flow, permuted, derived,
                   chunker, split, conc, upload>>

NextTempl ==
    \/ \E prompt_id \in TemplateIds, prompt \in {<<"p">>, <<"q">>} :
          UpdateCustomPrompt(prompt_id, prompt)
    \/ \E h \in {"zi", "wen"}, t \in TemplateIds \cup {"no_such_template"},
          has_key \in BOOLEAN, answer \in {"ok", "fail", "none"} :
            ProcessWithTemplate(Job("text", h, TRUE, 0, 0, <<h>>, t), has_key, answer)
    \/ TemplReturn

(***************************************************************************)
(* The audio upload: SiliconFlowClient.transcribe_audio opens the file     *)
(* once and hands the open stream to make_request, whose attempts all use  *)
(* the same files dict                                                     *)
(***************************************************************************)
MaxFileLen == 2

\* the bytes of an audio file of the given length
FileBytes(size) == [k \in 1..size |-> k]

\* audio_file.read() of the multipart encoding: the bytes from the stream's
\* position to the end of the file
FileRead(file, pos) == SubSeq(file, pos + 1, Len(file))

UploadIdle ==
    [pc |-> "idle", file |-> <<>>, pos |-> 0, r |-> ReqIdle, payloads |-> <<>>]

\* with open(audio_path, 'rb') as audio_file: the stream starts at 0, the
\* files dict holds it, and make_request is entered with its defaults
UploadOpen(size) ==
    /\ upload.pc = "idle"
    /\ upload' = [pc |-> "sending", file |-> FileBytes(size), pos |-> 0,
                  r |-> ReqCalled(DefaultMaxRetries, DefaultRetryDelay),
                  payloads |-> <<>>]
    /\ UNCHANGED <<cacheVars, last, reqVars, runVars, flow, permuted, derived,
                   chunker, split, conc, templ>>

\* one attempt of the loop: requests.request(files=files) encodes the body
\* by reading the stream where it stands, then sends it; an exception other
\* than a timeout or a connection error may be raised before the body is built
UploadAttempt(resp, encoded) ==
    /\ upload.pc = "sending"
    /\ upload.r.pc = "active"
    /\ resp.kind \in {"http", "timeout", "connection"} => encoded
    /\ upload' =
          [upload EXCEPT
              !.r = ReqAttempted(upload.r, resp),
              !.pos = IF encoded THEN Len(upload.file) ELSE upload.pos,
              !.payloads = IF encoded
                           THEN Append(upload.payloads,
                                       FileRead(upload.file, upload.pos))
                           ELSE upload.payloads]
    /\ UNCHANGED <<cacheVars, last, reqVars, runVars, flow, permuted, derived,
                   chunker, split, conc, templ>>

\* make_request has returned: the with block closes the stream
UploadReturn ==
    /\ upload.pc = "sending"
    /\ upload.r.pc = "returned"
    /\ upload' = [upload EXCEPT !.pc = "idle"]
    /\ UNCHANGED <<cacheVars, last, reqVars, runVars, flow, permuted, derived,
                   chunker, split, conc, templ>>

NextUpload ==
    \/ \E size \in 1..MaxFileLen : UploadOpen(size)
    \/ \E resp \in Responses, encoded \in BOOLEAN : UploadAttempt(resp, encoded)
    \/ UploadReturn


Init ==
    /\ now = 0
    /\ enabled \in BOOLEAN
    /\ memory_cache = EmptyDict
    /\ disk_cache = EmptyDict
    /\ last = NoOp
    /\ req = ReqIdle
    /\ call = CallIdle
    /\ run = RunIdle
    /\ stored = EmptyDict
    /\ flow = FlowIdle
    /\ permuted = PermutedIdle
    /\ derived = DerivedIdle
    /\ chunker = ChunkerIdle
    /\ split = SplitIdle
    /\ conc = ConcIdle
    /\ templ = TemplIdle
    /\ upload = UploadIdle

\* the cache used directly
SpecCache == Init /\ [][NextCache]_vars

\* make_request called with any max_retries and retry_delay
SpecReq == Init /\ [][NextReq]_vars

\* one client call at a time
SpecClient == Init /\ [][NextClient]_vars

\* runs of the two orchestrators, one after the other, on a shared cache
SpecRun == Init /\ [][NextRun]_vars

\* merge_transcripts called on a list and on a rearrangement of it
SpecMerge == Init /\ [][NextMerge]_vars

\* the cache keys of two custom-prompt requests
SpecKey == Init /\ [][NextKey]_vars

\* transcribe with its reports, a callback that may raise, cancellation
\* and cache I/O errors
SpecFlow == Init /\ [][NextFlow]_vars

\* chunk_text on every short text and on the 5,000-character text
SpecChunk == Init /\ [][NextChunk]_vars

\* split_audio on every file, whatever its strategies produce
SpecSplit == Init /\ [][NextSplit]_vars

\* two threads using the cache at once
SpecConc == Init /\ [][NextConc]_vars

\* template runs between which the user edits the templates
SpecTempl == Init /\ [][NextTempl]_vars

SpecUpload == Init /\ [][NextUpload]_vars

(***************************************************************************)
(* Claims                                                                  *)
(***************************************************************************)
\* the entry of key in a tier as the last cache operation found it
SeenIn(tier, key) == tier[CacheKeyHash(key)]

HeldIn(tier, key) == CacheKeyHash(key) \in DOMAIN tier

AgeOf(entry) == now - entry.timestamp

\* C2: with the cache enabled, a get of a key whose entries (in-process,
\* durable, or both) are all older than the TTL returns absent and leaves the
\* key in neither tier; a get that finds an entry of age at most the TTL
\* returns its value and both tiers keep what they held (a durable hit is
\* installed in the in-process tier as it is).
C2_GetEnforcesTTL ==
    (last.op = "get" /\ enabled) =>
        LET k == last.key
            inMem == HeldIn(last.mem, k)
            inDsk == HeldIn(last.dsk, k)
            memOld == inMem /\ AgeOf(SeenIn(last.mem, k)) > ttl_hours
            dskOld == inDsk /\ AgeOf(SeenIn(last.dsk, k)) > ttl_hours
        IN /\ ((inMem \/ inDsk) /\ (inMem => memOld) /\ (inDsk => dskOld)) =>
                /\ last.result = None
                /\ ~HeldIn(memory_cache, k)
                /\ ~HeldIn(disk_cache, k)
           /\ (inMem /\ ~memOld) =>
                /\ last.result = Some(SeenIn(last.mem, k).value)
                /\ memory_cache = last.mem
                /\ disk_cache = last.dsk
           /\ (~inMem /\ inDsk /\ ~dskOld) =>
                /\ last.result = Some(SeenIn(last.dsk, k).value)
                /\ disk_cache = last.dsk
                /\ HeldIn(memory_cache, k)
                /\ SeenIn(memory_cache, k) = SeenIn(last.dsk, k)

\* a get found the key expired in both tiers and purged both
C2_Witness ==
    /\ last.op = "get" /\ enabled
    /\ HeldIn(last.mem, last.key) /\ HeldIn(last.dsk, last.key)
    /\ AgeOf(SeenIn(last.mem, last.key)) > ttl_hours
    /\ AgeOf(SeenIn(last.dsk, last.key)) > ttl_hours
    /\ last.result = None
    /\ ~HeldIn(memory_cache, last.key) /\ ~HeldIn(disk_cache, last.key)

Is4xx(resp) == resp.kind = "http" /\ resp.status \in 400..499

Is200(resp) == resp.kind = "http" /\ resp.status = 200

\* C3: the first 4xx response ends make_request at once: it is the last
\* request sent, the call has returned failure with that response's error,
\* and no backoff delay was waited after it.
C3_ClientErrorEndsCall ==
    \A i \in 1..Len(req.hist) :
        Is4xx(req.hist[i]) =>
            /\ i = Len(req.hist)
            /\ req.pc = "returned"
            /\ ~req.result.success
            /\ req.result.data = NoData
            /\ req.result.error = Msg("http", req.hist[i].status)
            /\ ~req.slept
            /\ Len(req.delays) = i - 1

\* a 4xx answered the second of four allowed attempts and ended the call
C3_Witness ==
    /\ req.pc = "returned"
    /\ req.max_retries = 4
    /\ Len(req.hist) = 2
    /\ Is4xx(req.hist[2])
    /\ ~req.result.success

\* the transient failures: timeout, connection error, 5xx status
IsTransient(resp) ==
    \/ resp.kind \in {"timeout", "connection"}
    \/ resp.kind = "http" /\ resp.status \in 500..599

AllTransient == \A i \in 1..Len(req.hist) : IsTransient(req.hist[i])

\* C4: never more than max_retries requests are sent; a call whose every
\* attempt fails transiently goes on until it has sent exactly max_retries
\* requests and then returns failure with the last attempt's error; a call
\* whose k-th attempt is answered 200 returns success after exactly k requests.
C4_RetriesUpToMaxRetries ==
    /\ Len(req.hist) <= req.max_retries
    /\ (req.pc = "active" /\ AllTransient) => Len(req.hist) < req.max_retries
    /\ (req.pc = "returned" /\ AllTransient) =>
          /\ Len(req.hist) = req.max_retries
          /\ ~req.result.success
          /\ Len(req.hist) > 0 =>
                req.result.error = ErrorOf(req.hist[Len(req.hist)])
    /\ \A k \in 1..Len(req.hist) :
          Is200(req.hist[k]) =>
              k = Len(req.hist) /\ req.pc = "returned" /\ req.result.success

\* three transient failures exhausted a call with max_retries = 3
C4_Witness ==
    /\ req.pc = "returned"
    /\ req.max_retries = 3
    /\ Len(req.hist) = 3
    /\ AllTransient
    /\ req.result = ReqResult(FALSE, NoData, ErrorOf(req.hist[3]))

\* C5: the delay waited after failed attempt a (0-based) is
\* retry_delay * 2^a; the delays are non-decreasing and at most
\* retry_delay * 2^(max_retries-1); one delay follows every attempt but the
\* final one, and none follows the final one.
C5_BackoffDelays ==
    LET n == Len(req.delays)
    IN /\ \A a \in 1..n : req.delays[a] = req.retry_delay * Pow2(a - 1)
       /\ \A a \in 1..(n - 1) : req.delays[a] <= req.delays[a + 1]
       /\ \A a \in 1..n : req.delays[a] <= req.retry_delay * Pow2(req.max_retries - 1)
       /\ req.pc = "active" => n = Len(req.hist) /\ (n > 0 => req.slept)
       /\ (req.pc = "returned" /\ Len(req.hist) > 0) =>
             n = Len(req.hist) - 1 /\ ~req.slept

\* a call with max_retries = 4 failed four times and waited three delays
C5_Witness ==
    /\ req.pc = "returned"
    /\ req.max_retries = 4
    /\ Len(req.hist) = 4
    /\ req.delays = <<req.retry_delay, 2 * req.retry_delay, 4 * req.retry_delay>>

\* a 200 response whose body is not JSON
IsUnparseable(resp) == Is200(resp) /\ ~resp.json

\* C6: a 200 response whose body cannot be parsed as JSON ends make_request
\* at once with success: the data returned is the raw body under the key
\* 'text', there is no error, and the response is not retried.
C6_UnparseableBodyIsSuccess ==
    \A i \in 1..Len(req.hist) :
        IsUnparseable(req.hist[i]) =>
            /\ i = Len(req.hist)
            /\ req.pc = "returned"
            /\ req.result = ReqResult(TRUE, [shape |-> "text", text |-> req.hist[i].text],
                                      NoError)
            /\ ~req.slept

\* an unparseable 200 body answered the second attempt
C6_Witness ==
    /\ req.pc = "returned"
    /\ Len(req.hist) = 2
    /\ IsUnparseable(req.hist[2])
    /\ req.result.success

\* C6 as claimed: make_request never returns success for a 200 response
\* whose body cannot be parsed.
C6_UnparseableBodyIsTransient ==
    \A i \in 1..Len(req.hist) :
        IsUnparseable(req.hist[i]) => ~(req.pc = "returned" /\ req.result.success)

\* the result shapes each client's extractor knows
KnownShapes(client) ==
    IF client = "siliconflow"
    THEN {"text", "data_text", "choices_text", "choices_message"}
    ELSE {"choices_message", "text"}

\* a 200 JSON response in which the client finds no result text
HasNoResultText(client, resp) ==
    /\ Is200(resp) /\ resp.json
    /\ \/ resp.shape \notin KnownShapes(client)
       \/ \A j \in 1..Len(resp.text) : resp.text[j] \in Whitespace

FailedOutcomes(outcomes) == SelectSeq(outcomes, LAMBDA o : ~o.success)

\* the stripped texts of the successful outcomes, in order
SuccessTexts(outcomes) ==
    [i \in 1..Len(SelectSeq(outcomes, LAMBDA o : o.success)) |->
        Strip(SelectSeq(outcomes, LAMBDA o : o.success)[i].text)]

\* C1: with the cache enabled, when transcribe / process_with_template is
\* entered for an artifact and processing spec whose earlier successful run
\* is at most the TTL old and the cache was not cleared since, the call
\* returns at once from the cache: no segmentation, no remote call, no cache
\* write, the durable tier untouched, and the result is the earlier run's
\* text with success and no error.
C1_SecondRunServedFromCache ==
    [][(/\ run.pc = "idle"
        /\ run'.pc # "idle"
        /\ run'.looked_up
        /\ enabled
        /\ RunKey(run'.job) \in DOMAIN stored
        /\ now - stored[RunKey(run'.job)].at <= ttl_hours)
          => (/\ run'.pc = "done"
              /\ run'.hit
              /\ run'.segs = <<>>
              /\ run'.outcomes = <<>>
              /\ run'.sent = 0
              /\ run'.writes = 0
              /\ disk_cache' = disk_cache
              /\ stored' = stored
              /\ run'.result =
                    Result(TRUE, stored[RunKey(run'.job)].text, NoError))]_vars

\* a second run answered from the cache after the first one made its calls
C1_Witness ==
    /\ run.pc = "done"
    /\ run.no = 2
    /\ run.hit
    /\ run.sent = 0
    /\ enabled
    /\ RunKey(run.job) \in DOMAIN stored
    /\ run.result = Result(TRUE, stored[RunKey(run.job)].text, NoError)

\* C8: merge_transcripts returns failure, no text and the all-segments-failed
\* error exactly when no outcome is a success; with at least one success it
\* returns success and the successful texts joined by newlines.
C8_MergeFailsIffNoSuccess ==
    (run.pc = "done" /\ run.merged /\ run.job.mode = "audio") =>
        LET none == FailedOutcomes(run.outcomes) = run.outcomes
        IN /\ none <=> ~run.result.success
           /\ none => /\ run.result.text = <<>>
                      /\ run.result.error = Msg("all_segments_failed", 0)
           /\ ~none => /\ run.result.success
                       /\ run.result.text # <<>>
                       /\ run.result.text =
                            Join(SuccessTexts(run.outcomes), <<"\n">>)

\* a segmented transcription all of whose segment calls failed
C8_Witness ==
    /\ run.pc = "done" /\ run.merged /\ run.job.mode = "audio"
    /\ Len(run.outcomes) >= 2
    /\ FailedOutcomes(run.outcomes) = run.outcomes
    /\ run.sent > 0
    /\ run.result = Result(FALSE, <<>>, Msg("all_segments_failed", 0))

\* C9 as claimed: a chunked text processing all of whose chunk calls failed
\* returns failure with no text and the all-chunks-failed error, and the run
\* writes nothing to the cache.
C9_AllChunksFailedIsFailure ==
    (/\ run.pc = "done" /\ run.merged /\ run.job.mode = "text"
     /\ FailedOutcomes(run.outcomes) = run.outcomes)
        => /\ ~run.result.success
           /\ run.result.text = <<>>
           /\ run.result.error = Msg("all_chunks_failed", 0)
           /\ run.writes = 0

\* C10: in both mergers the two counters add up to the number of outcomes and
\* the failed counter is the number of failed outcomes; when some but not
\* all outcomes failed the result is a success whose warning carries that
\* number; when none failed the result is a success with no warning.
C10_WarningCountsFailures ==
    (run.pc = "done" /\ run.merged) =>
        LET failed == Len(FailedOutcomes(run.outcomes))
            total == Len(run.outcomes)
            warning == IF run.job.mode = "audio" THEN "segments_failed"
                       ELSE "chunks_failed"
        IN /\ run.counts.failed + run.counts.succeeded = total
           /\ run.counts.failed = failed
           /\ (0 < failed /\ failed < total) =>
                /\ run.result.success
                /\ run.result.error = Msg(warning, failed)
           /\ failed = 0 =>
                /\ run.result.success
                /\ run.result.error = NoError

\* a chunked text processing with one chunk failed and another processed
C10_Witness ==
    /\ run.pc = "done" /\ run.merged /\ run.job.mode = "text"
    /\ Len(FailedOutcomes(run.outcomes)) = 1
    /\ Len(run.outcomes) >= 2
    /\ run.result.success
    /\ run.result.error = Msg("chunks_failed", 1)

RECURSIVE SplitOn(_, _, _)
\* text.split(sep), cur being the part read so far
SplitOn(text, sep, cur) ==
    IF text = <<>> THEN <<cur>>
    ELSE IF Len(text) >= Len(sep) /\ SubSeq(text, 1, Len(sep)) = sep
    THEN <<cur>> \o SplitOn(SubSeq(text, Len(sep) + 1, Len(text)), sep, <<>>)
    ELSE SplitOn(Tail(text), sep, Append(cur, Head(text)))

IsSuffix(s, t) == Len(s) <= Len(t) /\ SubSeq(t, Len(t) - Len(s) + 1, Len(t)) = s

\* C11: the text a chunked text processing returns, cut at the double
\* newlines, has exactly one part per chunk; the part of a chunk whose call
\* succeeded is the call's text, and the part of a chunk whose call failed
\* ends with the chunk's original text, character for character.
C11_FailedChunkKeepsOriginal ==
    (run.pc = "done" /\ run.merged /\ run.job.mode = "text") =>
        LET parts == SplitOn(run.result.text, <<"\n", "\n">>, <<>>)
        IN /\ Len(parts) = Len(run.segs)
           /\ Len(run.outcomes) = Len(run.segs)
           /\ \A i \in 1..Len(run.segs) :
                IF run.outcomes[i].success
                THEN parts[i] = run.outcomes[i].text
                ELSE /\ IsSuffix(run.segs[i], parts[i])
                     /\ parts[i] = FailedPrefix \o run.segs[i]

\* a chunked text processing whose first chunk was processed and whose
\* second chunk failed
C11_Witness ==
    /\ run.pc = "done" /\ run.merged /\ run.job.mode = "text"
    /\ Len(run.outcomes) >= 2
    /\ run.outcomes[1].success
    /\ ~run.outcomes[2].success
    /\ run.segs[2] # <<>>

\* C13 as claimed: handing merge_transcripts the same outcomes in another
\* order gives the same combined text.
C13_ShuffleKeepsMergedText ==
    permuted.pc = "done" => permuted.shuffled.text = permuted.in_order.text

\* the system prompt as the request is sent: None and '' both send none
SentSystemPrompt(r) == OrEmpty(r.system_prompt)

\* C18 as claimed: two custom-prompt requests get the same cache key exactly
\* when they have the same text, the same user prompt and the same system
\* prompt.
C18_CustomKeyInjective ==
    derived.pc = "done" =>
        (derived.key_a = derived.key_b
            <=> /\ derived.a.text = derived.b.text
                /\ derived.a.user_prompt = derived.b.user_prompt
                /\ SentSystemPrompt(derived.a) = SentSystemPrompt(derived.b))

\* what the validations reject: a missing audio file, an unknown template,
\* a missing API key, an empty or whitespace-only text, an empty prompt
IsInvalidRun(r) ==
    IF r.job.mode = "audio" THEN ~r.job.exists \/ ~r.has_key
    ELSE \/ r.job.spec \notin DOMAIN Prompts
         \/ ~r.has_key
         \/ Strip(r.job.body) = <<>>
         \/ Strip(Prompts[r.job.spec]) = <<>>

\* the validations made before the cache is looked at
IsRejectedBeforeLookup(r) ==
    IF r.job.mode = "audio" THEN ~r.job.exists
    ELSE r.job.spec \notin DOMAIN Prompts

C12_OneOutcomePerSegment ==
    (flow.pc \in {"calling", "done"} /\ ~flow.single /\ flow.segs # <<>>) =>
        /\ Len(flow.outcomes) = flow.i
        /\ flow.i <= Len(flow.segs)
        /\ flow.called = SubSeq(flow.segs, 1, flow.i)
        /\ \A k \in 1..Len(flow.outcomes) :
                flow.outcomes[k].success =>
                    flow.outcomes[k].text = Strip(SpokenIn(flow.segs[k]))
        /\ flow.merged => Len(flow.outcomes) = Len(flow.segs)

\* a merged transcription of three segments, the turn of the first having
\* raised and the others having been transcribed
C12_Witness ==
    /\ flow.pc = "done" /\ flow.merged
    /\ Len(flow.segs) = 3
    /\ flow.outcomes[1] = Outcome(FALSE, <<>>, Msg("exception", 0))
    /\ flow.outcomes[2].success
    /\ flow.outcomes[3].success
    /\ flow.result.success

\* C14 as claimed: after cancellation is requested during a segmented run at
\* most the request in flight is still sent, and the run returns a cancelled
\* outcome, which is neither a success nor a failure.
C14_CancelStopsSegmentCalls ==
    (flow.cancelled /\ ~flow.single) =>
        /\ flow.sent_after_cancel <= 1
        /\ flow.pc = "done" =>
                /\ ~flow.result.success
                /\ flow.result.error = Msg("cancelled", 0)

\* C15 as claimed: a run during which cancellation was requested writes
\* nothing to the cache, and the cache holds for the run's key what it held
\* when the run began.
C15_CancelledRunWritesNothing ==
    (flow.pc = "done" /\ flow.cancelled) =>
        /\ flow.writes = 0
        /\ EntryOf(memory_cache, RunKey(flow.job)) = flow.before.mem

\* C16 as claimed: the fractions handed to progress_callback in one run lie
\* in [0, 1] and never decrease.
C16_ProgressMonotone ==
    \A k \in 1..Len(flow.progress) :
        /\ FracLeq(Frac(0, 1), flow.progress[k])
        /\ FracLeq(flow.progress[k], Frac(1, 1))
        /\ k > 1 => FracLeq(flow.progress[k - 1], flow.progress[k])

\* C17 as claimed: no exception leaves transcribe; when a stage raises,
\* the call returns a failure with no text.
C17_NoExceptionEscapes ==
    flow.pc = "done" =>
        /\ ~flow.escaped
        /\ flow.caught > 0 => ~flow.result.success /\ flow.result.text = <<>>

\* the result transcribe returns for the outcomes of its calls when the
\* cache has nothing for it
ResultOfOutcomes(f) ==
    IF f.single
    THEN Result(f.outcomes[1].success, f.outcomes[1].text, f.outcomes[1].error)
    ELSE LET m == MergeTranscripts(f.outcomes)
         IN Result(m.success, m.text, m.error)

\* C20: an I/O error of the durable tier never leaves Cache.get or
\* Cache.set as an exception; a get that met one returns absent, so the run
\* is not a hit and goes on to its calls; and a run that met one in its
\* lookup or in its write (its progress callback not raising) ends without
\* any exception with the result its calls' outcomes give.
C20_CacheErrorsAreMisses ==
    /\ ~flow.cache_raised
    /\ flow.get_error => ~flow.hit
    /\ (flow.pc = "done" /\ (flow.get_error \/ flow.set_error) /\ flow.bad_from = 0) =>
            /\ ~flow.escaped
            /\ flow.caught = 0
            /\ flow.outcomes # <<>>
            /\ flow.result = ResultOfOutcomes(flow)

\* a run whose lookup could not read the file an earlier run had written:
\* it makes its request and returns the transcript
C20_Witness ==
    /\ flow.pc = "done"
    /\ flow.get_error
    /\ flow.before.dsk.found
    /\ ~flow.hit
    /\ flow.sent > 0
    /\ flow.result.success

\* C21: a set with memory_only=true, the cache enabled, writes the entry to
\* the in-process tier and leaves the durable tier exactly as it was: every
\* file, also an older one of the same key, keeps its value and timestamp.
C21_MemoryOnlyKeepsDurable ==
    (last.op = "set" /\ last.memory_only) =>
        /\ disk_cache = last.dsk
        /\ enabled =>
              /\ HeldIn(memory_cache, last.key)
              /\ SeenIn(memory_cache, last.key).value = last.result.value

\* the self-test write of validate_setup made over an older durable entry
\* of test_key with another value
C21_Witness ==
    /\ last.op = "set" /\ last.memory_only /\ enabled
    /\ last.key = <<"test_key">>
    /\ HeldIn(last.dsk, last.key)
    /\ SeenIn(last.dsk, last.key).value # last.result.value
    /\ SeenIn(last.dsk, last.key).timestamp < now
    /\ SeenIn(disk_cache, last.key) = SeenIn(last.dsk, last.key)
    /\ SeenIn(memory_cache, last.key).value = last.result.value

\* C22: with the cache enabled, a get that finds a live entry in the
\* in-process tier returns it and leaves both tiers alone, whatever the
\* durable tier holds; on an in-process miss a live durable entry is returned
\* and installed in the in-process tier with the timestamp it was written
\* with, so that a get made next is answered by the in-process tier alone
\* with the same value.
C22_GetMemoryFirstThenDurable ==
    (last.op = "get" /\ enabled) =>
        LET k == last.key
            memLive == /\ HeldIn(last.mem, k)
                       /\ ~IsExpired(SeenIn(last.mem, k).timestamp, now)
            dskLive == /\ HeldIn(last.dsk, k)
                       /\ ~IsExpired(SeenIn(last.dsk, k).timestamp, now)
        IN /\ memLive =>
                /\ last.result = Some(SeenIn(last.mem, k).value)
                /\ memory_cache = last.mem
                /\ disk_cache = last.dsk
           /\ (~memLive /\ dskLive) =>
                /\ last.result = Some(SeenIn(last.dsk, k).value)
                /\ HeldIn(memory_cache, k)
                /\ SeenIn(memory_cache, k) = SeenIn(last.dsk, k)
                /\ CacheGetTiers(memory_cache, EmptyDict, k, now).result = last.result
           /\ (~memLive /\ ~HeldIn(last.dsk, k)) => last.result = None

\* a get answered by a durable entry written a day before, the in-process
\* tier having been empty
C22_Witness ==
    /\ last.op = "get" /\ enabled
    /\ ~HeldIn(last.mem, last.key)
    /\ HeldIn(last.dsk, last.key)
    /\ SeenIn(last.dsk, last.key).timestamp < now
    /\ last.result = Some(SeenIn(last.dsk, last.key).value)
    /\ SeenIn(memory_cache, last.key).timestamp < now

\* the number of characters of a chunk
ChunkSize(chunk) == chunk[2] - chunk[1]

\* C23 as claimed: for a text longer than max_length, chunk_text returns at
\* least ceil((L - O) / (S - O)) chunks, none of them longer than S + 1.
C23_ChunkCountAndSize ==
    (chunker.pc = "returned" /\ chunker.len > chunker.max_length) =>
        /\ Len(chunker.chunks) >=
              Ceil(chunker.len - chunker.overlap,
                   chunker.max_length - chunker.overlap)
        /\ \A k \in 1..Len(chunker.chunks) :
              ChunkSize(chunker.chunks[k]) <= chunker.max_length + 1

\* C24 as claimed: on a non-empty text, with 0 <= overlap < max_length,
\* chunk_text returns (it neither loops for ever nor raises), it returns at
\* least one chunk and no empty one, and a text of at most max_length
\* characters comes back as the one chunk that is the whole text.
C24_ChunksNeverEmpty ==
    /\ chunker.pc \notin {"stuck", "raised"}
    /\ chunker.pc = "returned" =>
          /\ Len(chunker.chunks) >= 1
          /\ \A k \in 1..Len(chunker.chunks) : ChunkSize(chunker.chunks[k]) > 0
          /\ chunker.len <= chunker.max_length => chunker.chunks = <<<<0, chunker.len>>>>

\* the results of the calls made for the chunks, all of them successes
AllSucceeded(n) == [k \in 1..n |-> Outcome(TRUE, <<"out", k>>, NoError)]

\* C29: chunk_text(text, 2000, 200) of a text of 5,000 characters returns
\* exactly 3 chunks wherever the terminators are, and with three successful
\* calls the merged result is a success without warning whose text is the
\* three outputs with one separator between the first and the second and
\* one between the second and the third.
C29_FiveThousandGivesThree ==
    (/\ chunker.pc = "returned"
     /\ chunker.len = 5000 /\ chunker.max_length = 2000 /\ chunker.overlap = 200) =>
        /\ Len(chunker.chunks) = 3
        /\ LET m == MergeChunks(chunker.chunks, AllSucceeded(3))
           IN /\ m.success
              /\ m.error = NoError
              /\ m.text = <<"out", 1, "\n", "\n", "out", 2, "\n", "\n", "out", 3>>

\* the 5,000-character text with a terminator found in both scans, the
\* first at index 2000, the second at the low end of its range
C29_Witness ==
    /\ chunker.pc = "returned" /\ chunker.len = 5000
    /\ Len(chunker.chunks) = 3
    /\ chunker.chunks[1] = <<0, 2001>>
    /\ chunker.chunks[2] = <<1801, 3603>>
    /\ chunker.chunks[3] = <<3403, 5000>>

Highest(S) == CHOOSE x \in S : \A y \in S : y <= x

\* C30 as claimed: a chunk that is not the last, starting at s, ends just
\* after the last terminator among the overlap characters before the
\* boundary s + max_length (positions s + S - O to s + S - 1), and at
\* s + max_length when there is none.
C30_CutAtNearestTerminator ==
    chunker.given =>
        \A k \in 1..Len(chunker.chunks) :
            LET st == chunker.starts[k]
                boundary == st + chunker.max_length
                window == {q \in (boundary - chunker.overlap)..(boundary - 1) :
                              q \in chunker.terms}
            IN boundary < chunker.len =>
                  chunker.chunks[k] =
                     IF window # {} THEN <<st, Highest(window) + 1>>
                     ELSE <<st, boundary>>

\* no strategy has produced a segment of an existing audio that had to be
\* split
NothingSplit(sp) ==
    /\ sp.pc = "done" /\ sp.job.exists /\ sp.num_segments > 0
    /\ sp.ios_made = 0 /\ sp.py_made = 0 /\ sp.copied = 0
    /\ sp.job.size_mb > max_chunk_size_mb

\* C25 as claimed: when no strategy produces a segment of an existing audio,
\* split_audio returns success with the whole file as its one segment, and
\* the orchestrator goes on to transcribe it.
C25_WholeArtifactWhenNothingSplit ==
    NothingSplit(split) =>
        /\ split.returned = <<TRUE, <<Whole(split.job)>>, NoError>>
        /\ split.taken.segments = <<Whole(split.job)>>

\* C26 as claimed: when neither the framework nor the library gives the
\* duration of an existing audio, split_audio returns a triple (success,
\* segments, error) that _transcribe_with_segments unpacks without error,
\* successful and with at least one segment.
C26_UnknownDurationStillSplits ==
    (split.pc = "done" /\ split.job.exists /\ split.measured_by = "none") =>
        /\ Len(split.returned) = 3
        /\ ~split.taken.raised
        /\ split.returned[1]
        /\ Len(split.taken.segments) >= 1

\* C27 as claimed: whatever the interleaving of the threads' get, set,
\* delete and clear, no operation raises, and a get that returns a value
\* returns one that a set wrote for its key.
C27_ConcurrentUseNeverRaises ==
    \A t \in Threads :
        /\ conc.threads[t].pc # "raised"
        /\ (/\ conc.threads[t].op = "get" /\ conc.threads[t].pc = "done"
            /\ conc.threads[t].result.found) =>
              conc.threads[t].result.value \in conc.wrote[conc.threads[t].key]

\* C28 as claimed: with nothing but set and get in progress or done and no
\* entry old enough to expire, a get never removes a file that a set has
\* open, and once every call has finished the file of every key that was
\* written holds a complete entry with one of the values written for the
\* key.
C28_ConcurrentSetKeepsDurableEntry ==
    (conc.kinds \subseteq {"set", "get"} /\ now = 0 /\ enabled) =>
        /\ ~conc.removed_open
        /\ (\A t \in Threads : conc.threads[t].pc \in {"idle", "done"}) =>
              \A k \in CacheKeys :
                  conc.wrote[k] # {} =>
                      /\ CacheKeyHash(k) \in DOMAIN disk_cache
                      /\ disk_cache[CacheKeyHash(k)].state = "entry"
                      /\ disk_cache[CacheKeyHash(k)].entry.value \in conc.wrote[k]

StrategyOf(sp) ==
    IF sp.ios_made > 0 THEN "ios"
    ELSE IF sp.py_made > 0 THEN "python"
    ELSE "size"

\* C32 as claimed: when the duration split_audio works with exceeds
\* chunk_duration and it reports success, it returns num_segments =
\* ceil(duration / chunk_duration) segments, and the i-th of them holds the
\* audio from i * duration / num_segments to (i + 1) * duration /
\* num_segments.
C32_UniformSegments ==
    (/\ split.pc = "done" /\ split.num_segments > 0
     /\ Len(split.returned) = 3 /\ split.returned[1]) =>
        LET n == split.num_segments
            duration == GetAudioDuration(split.job, split.measured_by).value.duration
        IN /\ Len(split.returned[2]) = n
           /\ \A i \in 0..(n - 1) :
                SpanOf(split.job, StrategyOf(split), i, n, duration)
                    = <<i * duration * 1000, (i + 1) * duration * 1000>>

\* C33: in a segmented run the segment calls are made one after the other
\* in the order of the segments (each step adds the outcome of the next
\* segment and leaves the earlier outcomes as they are, each call sending
\* between one request and max_retries requests); a failed call, refused
\* or out of retries, does not end the loop: the run finishes only when
\* every segment has its one outcome, and it is a success when at least one
\* call succeeded.
C33_FailedSegmentDemoted ==
    /\ [](((run.pc \in {"calling", "done"}) /\ ~run.single /\ run.segs # <<>>) =>
            /\ Len(run.outcomes) <= Len(run.segs)
            /\ run.has_key =>
                 /\ run.sent >= Len(run.outcomes)
                 /\ run.sent <= DefaultMaxRetries * Len(run.outcomes)
            /\ run.pc = "done" =>
                 /\ Len(run.outcomes) = Len(run.segs)
                 /\ (\E k \in 1..Len(run.outcomes) : run.outcomes[k].success)
                        => run.result.success)
    /\ [][(run.pc = "calling" /\ ~run.single /\ run'.pc = "calling") =>
            /\ Len(run'.outcomes) = Len(run.outcomes) + 1
            /\ SubSeq(run'.outcomes, 1, Len(run.outcomes)) = run.outcomes
            /\ run'.segs = run.segs]_vars

\* a transcription in three segments: the first call ran out of retries on
\* 503 answers, the second was refused with 404, the third succeeded, and
\* the run is a success
C33_Witness ==
    /\ run.pc = "done" /\ run.merged /\ run.job.mode = "audio"
    /\ Len(run.segs) = 3
    /\ Len(run.outcomes) = 3
    /\ ~run.outcomes[1].success /\ run.outcomes[1].error.code = 503
    /\ ~run.outcomes[2].success /\ run.outcomes[2].error.code = 404
    /\ run.outcomes[3].success
    /\ run.sent = DefaultMaxRetries + 2
    /\ run.result.success

\* C34 as claimed: a successful process_with_template returns what the
\* service makes of the text under the prompt the template has now, also
\* when the prompt was changed under the same template id since an earlier
\* run of the same text.
C34_KeyDependsOnPrompt ==
    (templ.pc = "done" /\ templ.result.success) =>
        templ.result.text =
            Strip(Processed(templ.prompts[templ.job.spec], templ.job.body))

\* C35 as claimed: with 0 <= overlap < max_length every turn of chunk_text's
\* loop that does not return leaves a start position that is greater than
\* the one it began with and not negative, and no call repeats a turn for
\* ever.
C35_ChunkTextTerminates ==
    /\ [](chunker.pc # "stuck")
    /\ [][(chunker.pc = "looping" /\ chunker'.pc \in {"looping", "stuck"}) =>
            /\ chunker'.start > chunker.start
            /\ chunker'.start >= 0]_vars

\* C36 as claimed: the segmenter's temp_files holds only files the
\* segmenter made, never the caller's audio file, and no cleanup of a run
\* deletes the caller's audio file, also when the split hands the whole
\* file on as the one segment.
C36_InputFileKept ==
    flow.job.mode = "audio" =>
        /\ Whole(flow.job) \notin flow.temp_files
        /\ Whole(flow.job) \notin flow.deleted

\* C37 as claimed: while a run has segment calls still to make, the files
\* of those segments are there; no segment call fails because its file is
\* gone, and no run caches a text merged from outcomes of which one failed
\* that way.
C37_SegmentFilesOutliveCalls ==
    /\ flow.pc = "calling" =>
          \A k \in (flow.i + 1)..Len(flow.segs) : flow.segs[k] \notin flow.deleted
    /\ \A k \in 1..Len(flow.outcomes) :
          flow.outcomes[k].error # Msg("no_file", 0)
    /\ (flow.pc = "done" /\ flow.writes > 0) =>
          \A k \in 1..Len(flow.outcomes) :
              flow.outcomes[k].error # Msg("no_file", 0)

\* C38 as claimed: every attempt of an audio upload transmits the whole file,
\* the same payload as the first attempt.
C38_RetrySendsSamePayload ==
    \A k \in 1..Len(upload.payloads) : upload.payloads[k] = upload.file

\* C39 as claimed: a run served from the cache returns the triple of the run
\* that stored the entry, its partial-failure warning included.
C39_HitReturnsStoredTriple ==
    (/\ run.pc = "done"
     /\ run.hit
     /\ enabled
     /\ RunKey(run.job) \in DOMAIN stored)
        => run.result = Result(TRUE, stored[RunKey(run.job)].text,
                               stored[RunKey(run.job)].error)

\* the positions of the text that the slice text[from:to] holds, in order
Positions(slice) == [k \in 1..(slice[2] - slice[1]) |-> slice[1] + k - 1]

\* chunk[overlap:]
DropFirst(seq, n) == SubSeq(seq, n + 1, Len(seq))

\* chunk 0 followed by every later chunk without its first overlap characters
RECURSIVE Rejoined(_, _)
Rejoined(chunks, overlap) ==
    IF Len(chunks) = 1 THEN Positions(chunks[1])
    ELSE Rejoined(SubSeq(chunks, 1, Len(chunks) - 1), overlap)
            \o DropFirst(Positions(chunks[Len(chunks)]), overlap)

\* C40: for a text longer than max_length and 0 <= 2 * overlap < max_length,
\* the chunks chunk_text returns begin at the start of the text and end at
\* its end, chunk k+1 begins exactly overlap characters before the end of
\* chunk k, and chunk 0 followed by every later chunk without its first
\* overlap characters is the text.
C40_ChunksCoverWithOverlap ==
    (/\ chunker.pc = "returned"
     /\ chunker.len > chunker.max_length
     /\ 2 * chunker.overlap < chunker.max_length) =>
        /\ Len(chunker.chunks) >= 2
        /\ chunker.chunks[1][1] = 0
        /\ chunker.chunks[Len(chunker.chunks)][2] = chunker.len
        /\ \A k \in 1..(Len(chunker.chunks) - 1) :
              chunker.chunks[k + 1][1] = chunker.chunks[k][2] - chunker.overlap
        /\ Rejoined(chunker.chunks, chunker.overlap) = Positions(<<0, chunker.len>>)

\* a text given character by character, returned in three chunks or more
\* with an overlap, one of them cut after a terminator and not at start +
\* max_length
C40_Witness ==
    /\ chunker.pc = "returned"
    /\ chunker.given
    /\ chunker.len > chunker.max_length
    /\ chunker.overlap > 0
    /\ 2 * chunker.overlap < chunker.max_length
    /\ Len(chunker.chunks) >= 3
    /\ \E k \in 1..(Len(chunker.chunks) - 1) :
          /\ chunker.chunks[k][2] - chunker.chunks[k][1] # chunker.max_length
          /\ (chunker.chunks[k][2] - 1) \in chunker.terms

====
